---- MODULE Spec2Model ----
(***************************************************************************)
(* A model of the authenticated request pipeline of bingx-py:              *)
(* BingXHttpClient / HttpClient (http_client.py), the in-process caches    *)
(* (caching/memory_cache.py), the process-wide cache configuration         *)
(* (config.py) and the error classes (exceptions.py).                      *)
(*                                                                         *)
(* Python strings are sequences of one-character strings, so that sorting, *)
(* URL quoting and joining are computed as the code computes them.  Python *)
(* values are tagged records with the same fields for every type.          *)
(***************************************************************************)
EXTENDS Integers, Sequences, FiniteSets, TLC

VARIABLES
    session,        \* HttpClient._session: "none" | "open" | "closed"
    async_session,  \* HttpClient._async_session: "none" | "open" | "closed"
    unsafe_cache,   \* CacheConfig._unsafe_cache
    cache,          \* class of HttpClient.cache: "sync" | "async" | "none"
    mode,           \* the mode the client is used in: "sync" | "async"
    data,           \* the in-process cache's _data: key -> [value, expires]
    clock,          \* time.time(), in whole seconds
    inv,            \* the caller's latest invocation of the pipeline
    ncalls,         \* number of pipeline invocations (cache operations) started so far
    lastSet,        \* ghost: per key, the latest set() issued on the cache
    cres,           \* the latest get() issued on the cache and what it returned
    arg,            \* input of the pure function under check
    ret,            \* its result
    objects,        \* per mode, the sessions the client has created, oldest first:
                    \* each "open" or "closed"; the client holds the last one
    scope,          \* the with / async with statement the client is used in
    lastop,         \* ghost: per mode the latest lifecycle call, and the latest close
    lock,           \* the cache's _lock: 0 when free, or the task that holds it
    running,        \* the coroutine the event loop is running, 0 when none
    tasks,          \* per task (thread or coroutine), its current cache operation
    written         \* ghost: the entries stored in the cache so far

lifevars == <<objects, scope, lastop>>

lockvars == <<lock, running, tasks, written>>

vars == <<session, async_session, unsafe_cache, cache, mode, data, clock, inv, ncalls,
          lastSet, cres, arg, ret, lifevars, lockvars>>

(***************************************************************************)
(* Bounds of the model.                                                    *)
(***************************************************************************)
\* the clock runs from 0 to MaxClock seconds while the pipeline is used
MaxClock == 1
\* and from 0 to CacheMaxClock seconds while a cache is used directly
CacheMaxClock == 3
\* the pipeline is invoked at most MaxCalls times in a behaviour
MaxCalls == 2
\* the TTL the client is constructed with (default_cache_ttl), in seconds
CacheTtl == 1
\* the largest ttl passed to a direct set() on a cache, in seconds
MaxTtl == 1
\* the largest number of entries of a parameter mapping given to a pure function
MaxParams == 2
\* the number of tasks (threads or coroutines) that use one cache at the same time
NumTasks == 2
\* the number of cache operations these tasks start in a behaviour
MaxOps == 2
\* the clock runs from 0 to LockMaxClock seconds while they do
LockMaxClock == 2

(***************************************************************************)
(* Python values.                                                          *)
(***************************************************************************)
PyValue(t, n, s, xs) == [t |-> t, n |-> n, s |-> s, xs |-> xs]
PyInt(n) == PyValue("int", n, <<>>, <<>>)
PyStr(s) == PyValue("str", 0, s, <<>>)
PyList(xs) == PyValue("list", 0, <<>>, xs)   \* a list of integers
PyNone == PyValue("none", 0, <<>>, <<>>)

\* bool(v)
Truthy(v) ==
    CASE v.t = "int" -> v.n # 0
      [] v.t = "str" -> v.s # <<>>
      [] v.t = "list" -> v.xs # <<>>
      [] OTHER -> FALSE

\* the characters the model uses, in increasing code point order
AsciiOrder ==
    <<" ", "%", "&", "(", ")", "+", ",", "-", "/",
      "0", "1", "2", "3", "4", "5", "6", "7", "8", "9",
      ":", "=", "?", "B", "D", "E", "F", "G", "N", "O", "P", "S", "T",
      "[", "]", "_",
      "a", "b", "c", "d", "e", "g", "h", "i", "m", "n", "o", "p", "r", "s",
      "t", "u", "x">>

Ord(c) == CHOOSE i \in 1..Len(AsciiOrder) : AsciiOrder[i] = c

\* s < t for Python strings: lexicographic by code point
RECURSIVE StrLess(_, _)
StrLess(s, t) ==
    IF s = <<>> THEN t # <<>>
    ELSE IF t = <<>> THEN FALSE
    ELSE IF Head(s) = Head(t) THEN StrLess(Tail(s), Tail(t))
    ELSE Ord(Head(s)) < Ord(Head(t))

Digit(d) == <<"0", "1", "2", "3", "4", "5", "6", "7", "8", "9">>[d + 1]

RECURSIVE NatToStr(_)
NatToStr(n) == IF n < 10 THEN <<Digit(n)>> ELSE NatToStr(n \div 10) \o <<Digit(n % 10)>>

IntToStr(n) == IF n < 0 THEN <<"-">> \o NatToStr(-n) ELSE NatToStr(n)

\* ", ".join(str(x) for x in xs)
RECURSIVE JoinInts(_)
JoinInts(xs) ==
    IF xs = <<>> THEN <<>>
    ELSE IF Len(xs) = 1 THEN IntToStr(xs[1])
    ELSE IntToStr(xs[1]) \o <<",", " ">> \o JoinInts(Tail(xs))

\* str(v)
ToStr(v) ==
    CASE v.t = "int" -> IntToStr(v.n)
      [] v.t = "str" -> v.s
      [] v.t = "list" -> <<"[">> \o JoinInts(v.xs) \o <<"]">>
      [] OTHER -> <<"N", "o", "n", "e">>

\* s.replace(' ', '')
RECURSIVE StripSpaces(_)
StripSpaces(s) ==
    IF s = <<>> THEN <<>>
    ELSE IF Head(s) = " " THEN StripSpaces(Tail(s))
    ELSE <<Head(s)>> \o StripSpaces(Tail(s))

\* sep.join(parts)
RECURSIVE Join(_, _)
Join(sep, parts) ==
    IF parts = <<>> THEN <<>>
    ELSE IF Len(parts) = 1 THEN parts[1]
    ELSE parts[1] \o sep \o Join(sep, Tail(parts))

\* the characters urllib never quotes
AlwaysSafe ==
    {"-", "_", "0", "1", "2", "3", "4", "5", "6", "7", "8", "9",
     "B", "D", "E", "F", "G", "N", "O", "P", "S", "T",
     "a", "b", "c", "d", "e", "g", "h", "i", "m", "n", "o", "p", "r", "s",
     "t", "u", "x"}

\* the %XX escape of a character that is not always safe
PercentEscape(c) ==
    CASE c = "%" -> <<"%", "2", "5">>
      [] c = "&" -> <<"%", "2", "6">>
      [] c = "(" -> <<"%", "2", "8">>
      [] c = ")" -> <<"%", "2", "9">>
      [] c = "+" -> <<"%", "2", "B">>
      [] c = "," -> <<"%", "2", "C">>
      [] c = "/" -> <<"%", "2", "F">>
      [] c = ":" -> <<"%", "3", "A">>
      [] c = "=" -> <<"%", "3", "D">>
      [] c = "?" -> <<"%", "3", "F">>
      [] c = "[" -> <<"%", "5", "B">>
      [] c = "]" -> <<"%", "5", "D">>

\* urllib.parse.quote_plus(s)
RECURSIVE quote_plus(_)
quote_plus(s) ==
    IF s = <<>> THEN <<>>
    ELSE (IF Head(s) \in AlwaysSafe THEN <<Head(s)>>
          ELSE IF Head(s) = " " THEN <<"+">>
          ELSE PercentEscape(Head(s))) \o quote_plus(Tail(s))

(***************************************************************************)
(* A dict is the sequence of its items <<key, value>> in insertion order;  *)
(* its keys are strings and pairwise distinct.                             *)
(***************************************************************************)
RECURSIVE InsertItem(_, _)
InsertItem(item, items) ==
    IF items = <<>> THEN <<item>>
    ELSE IF StrLess(item[1], Head(items)[1]) THEN <<item>> \o items
    ELSE <<Head(items)>> \o InsertItem(item, Tail(items))

\* sorted(d.items())
RECURSIVE sorted(_)
sorted(items) ==
    IF items = <<>> THEN <<>>
    ELSE InsertItem(items[Len(items)], sorted(SubSeq(items, 1, Len(items) - 1)))

\* urllib.parse.urlencode(items)
RECURSIVE urlencode(_)
urlencode(items) ==
    IF items = <<>> THEN <<>>
    ELSE LET kv == quote_plus(items[1][1]) \o <<"=">> \o quote_plus(ToStr(items[1][2]))
         IN  IF Len(items) = 1 THEN kv ELSE kv \o <<"&">> \o urlencode(Tail(items))

s_timestamp == <<"t", "i", "m", "e", "s", "t", "a", "m", "p">>
s_signature == <<"s", "i", "g", "n", "a", "t", "u", "r", "e">>

\* {k: v for k, v in params.items() if k not in {"signature", "timestamp"}}
RECURSIVE filtered_params(_)
filtered_params(items) ==
    IF items = <<>> THEN <<>>
    ELSE IF Head(items)[1] \in {s_signature, s_timestamp} THEN filtered_params(Tail(items))
    ELSE <<Head(items)>> \o filtered_params(Tail(items))

\* HttpClient._generate_cache_key; params = <<>> stands for None and for {}
HttpClient_generate_cache_key(method, endpoint, params, unique_cache_attribute) ==
    Join(<<":">>,
         <<method, endpoint>>
         \o (IF params # <<>> THEN <<urlencode(sorted(params))>> ELSE <<>>)
         \o (IF Truthy(unique_cache_attribute)
               THEN <<unique_cache_attribute.s>> ELSE <<>>))

\* BingXHttpClient._generate_cache_key, which overrides it
BingX_generate_cache_key(method, endpoint, params, unique_cache_attribute) ==
    Join(<<":">>,
         <<method, endpoint>>
         \o (IF params # <<>>
               THEN <<urlencode(sorted(filtered_params(params)))>> ELSE <<>>)
         \o (IF Truthy(unique_cache_attribute)
               THEN <<unique_cache_attribute.s>> ELSE <<>>))

(***************************************************************************)
(* Request signer.                                                         *)
(***************************************************************************)
\* the items of _parse_params: name=value for the truthy values, sorted by name
RECURSIVE rendered_items(_)
rendered_items(items) ==
    IF items = <<>> THEN <<>>
    ELSE LET k == Head(items)[1]
             v == Head(items)[2]
         IN  (IF Truthy(v)
                THEN <<k \o <<"=">> \o
                       (IF v.t = "list" THEN StripSpaces(ToStr(v)) ELSE ToStr(v))>>
                ELSE <<>>) \o rendered_items(Tail(items))

\* a _parse_params that keeps the insertion order
BingX_parse_params_unsorted(params, now) ==
    LET params_string == Join(<<"&">>, rendered_items(params))
        ts == IntToStr(now * 1000)
    IN  IF params_string # <<>>
          THEN params_string \o <<"&">> \o s_timestamp \o <<"=">> \o ts
          ELSE params_string \o s_timestamp \o <<"=">> \o ts

\* BingXHttpClient._parse_params at time.time() = now seconds
BingX_parse_params(params, now) ==
    LET params_string == Join(<<"&">>, rendered_items(sorted(params)))
        ts == IntToStr(now * 1000)
    IN  IF params_string # <<>>
          THEN params_string \o <<"&">> \o s_timestamp \o <<"=">> \o ts
          ELSE params_string \o s_timestamp \o <<"=">> \o ts

\* hmac.new(key, msg, sha256).hexdigest(): an uninterpreted injective term
HmacSha256Hex(key, msg) ==
    <<"h", "m", "a", "c", "(">> \o key \o <<",">> \o msg \o <<")">>

api_secret == <<"s">>

\* BingXHttpClient._sign_request
BingX_sign_request(params_str) == HmacSha256Hex(api_secret, params_str)


(***************************************************************************)
(* Error classifier.  A decoded payload is a record: kind "dict" with the  *)
(* set of keys it holds (a key that is absent has a default in its field), *)
(* or kind "none" for Python's None.                                       *)
(***************************************************************************)
Payload(keys, code, msg, timestamp, body) ==
    [kind |-> "dict", keys |-> keys, code |-> code, msg |-> msg,
     timestamp |-> timestamp, data |-> body]
EmptyDict == Payload({}, 0, "", 0, "")
NonePayload == [kind |-> "none", keys |-> {}, code |-> 0, msg |-> "",
                timestamp |-> 0, data |-> ""]

\* error_mapping of _check_errors: code -> exception class
error_mapping ==
    {<<400, "BadRequestError">>, <<401, "UnauthorizedError">>,
     <<403, "ForbiddenError">>, <<404, "NotFoundError">>,
     <<429, "TooManyRequestsError">>, <<418, "IPBannedError">>,
     <<500, "InternalServerError">>, <<504, "GatewayTimeoutError">>,
     <<100001, "SignatureVerificationFailedError">>, <<100500, "InternalSystemError">>,
     <<80012, "OperationError">>, <<80014, "InvalidParameterError">>,
     <<80016, "OrderNotFoundError">>, <<80017, "PositionNotFoundError">>,
     <<80020, "RiskForbiddenError">>, <<100004, "PermissionDeniedError">>,
     <<100419, "IPWhitelistError">>, <<101204, "InsufficientMarginError">>,
     <<80013, "OrderLimitReachedError">>, <<80018, "OrderAlreadyFilledError">>,
     <<80019, "OrderProcessingError">>, <<100412, "NullSignatureError">>,
     <<100413, "IncorrectAPIKeyError">>, <<100421, "TimestampError">>,
     <<100410, "RateLimitError">>, <<101209, "MaxPositionValueError">>,
     <<101212, "PendingOrdersError">>, <<101215, "MakerOrderError">>,
     <<101414, "MaxLeverageError">>, <<101415, "TradingPairSuspendedError">>,
     <<101460, "LiquidationPriceError">>, <<101500, "RPCTimeoutError">>,
     <<101514, "SuspendedFromOpeningPositionsError">>, <<109201, "DuplicateOrderError">>,
     <<101211, "OrderPriceError">>, <<101400, "TradeValidationError">>,
     <<80001, "TradeExecutionError">>}

\* the code each subclass of APIError passes to APIError.__init__
exception_code ==
    {<<"BadRequestError", 400>>, <<"UnauthorizedError", 401>>,
     <<"ForbiddenError", 403>>, <<"NotFoundError", 404>>,
     <<"TooManyRequestsError", 429>>, <<"IPBannedError", 418>>,
     <<"InternalServerError", 500>>, <<"GatewayTimeoutError", 504>>,
     <<"SignatureVerificationFailedError", 100001>>, <<"InternalSystemError", 100500>>,
     <<"OperationError", 80012>>, <<"InvalidParameterError", 80014>>,
     <<"OrderNotFoundError", 80016>>, <<"PositionNotFoundError", 80017>>,
     <<"RiskForbiddenError", 80020>>, <<"PermissionDeniedError", 100004>>,
     <<"IPWhitelistError", 100419>>, <<"InsufficientMarginError", 101204>>,
     <<"OrderLimitReachedError", 80013>>, <<"OrderAlreadyFilledError", 80018>>,
     <<"OrderProcessingError", 80019>>, <<"NullSignatureError", 100412>>,
     <<"IncorrectAPIKeyError", 100413>>, <<"TimestampError", 100421>>,
     <<"RateLimitError", 100410>>, <<"MaxPositionValueError", 101209>>,
     <<"PendingOrdersError", 101212>>, <<"MakerOrderError", 101215>>,
     <<"MaxLeverageError", 101414>>, <<"TradingPairSuspendedError", 101415>>,
     <<"LiquidationPriceError", 101460>>, <<"RPCTimeoutError", 101500>>,
     <<"SuspendedFromOpeningPositionsError", 101514>>, <<"DuplicateOrderError", 109201>>,
     <<"OrderPriceError", 101211>>, <<"TradeValidationError", 101400>>,
     <<"TradeExecutionError", 80001>>}

\* what a call that raised no exception leaves
NoError ==
    [raised |-> FALSE, cls |-> "", code |-> 0, message |-> "",
     has_timestamp |-> FALSE, timestamp |-> 0]

\* APIError.__init__(code, message, timestamp) on an instance of class cls
APIError(cls, code, message, has_timestamp, timestamp) ==
    [raised |-> TRUE, cls |-> cls, code |-> code, message |-> message,
     has_timestamp |-> has_timestamp, timestamp |-> timestamp]

\* SubclassError where IncorrectAPIKeyError.__init__ was copied from the class
\* above it, NullSignatureError, and still passes 100412
SubclassError_copied_code(cls, message, has_timestamp, timestamp) ==
    APIError(cls,
             IF cls = "IncorrectAPIKeyError" THEN 100412
             ELSE (CHOOSE e \in exception_code : e[1] = cls)[2],
             message, has_timestamp, timestamp)

\* cls(message, timestamp) for a subclass: its __init__ supplies the code
SubclassError(cls, message, has_timestamp, timestamp) ==
    APIError(cls, (CHOOSE e \in exception_code : e[1] = cls)[2],
             message, has_timestamp, timestamp)

\* error_mapping.get(error_code, exceptions.APIError)
exception_class(error_code) ==
    IF \E e \in error_mapping : e[1] = error_code
      THEN (CHOOSE e \in error_mapping : e[1] = error_code)[2]
      ELSE "APIError"

\* BingXHttpClient._check_errors: the exception it raises, or NoError
BingX_check_errors(d) ==
    IF "code" \notin d.keys \/ d.code = 0 THEN NoError
    ELSE LET error_code == d.code
             error_message == IF "msg" \in d.keys THEN d.msg
                              ELSE "No error message provided"
             has_ts == "timestamp" \in d.keys
             cls == exception_class(error_code)
         IN  IF cls = "APIError"
               THEN APIError(cls, error_code, error_message, has_ts, d.timestamp)
               ELSE SubclassError(cls, error_message, has_ts, d.timestamp)

(***************************************************************************)
(* In-process caches.  _data maps a key to [value, expires]; expires is    *)
(* PyNone or a PyInt of seconds.  Each operation runs under the cache's    *)
(* lock and is given as [ret, data]: what it returns and the map it leaves.*)
(***************************************************************************)
NoData == [k \in {} |-> 0]

Entry(value, expires) == [value |-> value, expires |-> expires]

DictPop(d, key) == [k \in (DOMAIN d) \ {key} |-> d[k]]
DictPut(d, key, e) == [k \in (DOMAIN d) \cup {key} |-> IF k = key THEN e ELSE d[k]]

\* SyncMemoryCache.get without the pop of an expired entry
SyncMemoryCache_get_keeps_expired(d, key, now) ==
    IF key \notin DOMAIN d THEN [ret |-> NonePayload, data |-> d]
    ELSE IF Truthy(d[key].expires) /\ d[key].expires.n < now
      THEN [ret |-> NonePayload, data |-> d]
    ELSE [ret |-> d[key].value, data |-> d]

\* a get that first sweeps every expired entry out of the map
SyncMemoryCache_get_sweeps(d, key, now) ==
    LET kept == [k \in {x \in DOMAIN d : ~(Truthy(d[x].expires) /\ d[x].expires.n < now)}
                   |-> d[k]]
    IN  IF key \notin DOMAIN kept THEN [ret |-> NonePayload, data |-> kept]
        ELSE [ret |-> kept[key].value, data |-> kept]

\* SyncMemoryCache.get at time.time() = now; NonePayload is Python's None
SyncMemoryCache_get(d, key, now) ==
    IF key \notin DOMAIN d THEN [ret |-> NonePayload, data |-> d]
    ELSE IF Truthy(d[key].expires) /\ d[key].expires.n < now
      THEN [ret |-> NonePayload, data |-> DictPop(d, key)]
    ELSE [ret |-> d[key].value, data |-> d]

\* SyncMemoryCache.set with a missing ttl taken as one second
SyncMemoryCache_set_default_ttl(d, key, value, ttl, now) ==
    LET expires == PyInt(now + (IF Truthy(ttl) THEN ttl.n ELSE 1))
    IN  DictPut(d, key, Entry(value, expires))

\* SyncMemoryCache.set: ttl is PyNone or a PyInt
SyncMemoryCache_set(d, key, value, ttl, now) ==
    LET expires == IF Truthy(ttl) THEN PyInt(now + ttl.n) ELSE PyNone
    IN  DictPut(d, key, Entry(value, expires))

\* AsyncMemoryCache.aget
AsyncMemoryCache_aget(d, key, now) ==
    IF key \notin DOMAIN d THEN [ret |-> NonePayload, data |-> d]
    ELSE IF Truthy(d[key].expires) /\ d[key].expires.n < now
      THEN [ret |-> NonePayload, data |-> DictPop(d, key)]
    ELSE [ret |-> d[key].value, data |-> d]

\* AsyncMemoryCache.aset written with setdefault: an existing entry is kept
AsyncMemoryCache_aset_setdefault(d, key, value, ttl, now) ==
    LET expires == IF Truthy(ttl) THEN PyInt(now + ttl.n) ELSE PyNone
    IN  IF key \in DOMAIN d THEN d ELSE DictPut(d, key, Entry(value, expires))

\* AsyncMemoryCache.aset
AsyncMemoryCache_aset(d, key, value, ttl, now) ==
    LET expires == IF Truthy(ttl) THEN PyInt(now + ttl.n) ELSE PyNone
    IN  DictPut(d, key, Entry(value, expires))


(***************************************************************************)
(* State shared by the specifications below.                               *)
(***************************************************************************)

\* no response has arrived
NoResponse == [status_ok |-> FALSE, body |-> "", payload |-> NonePayload]

\* the caller has not invoked the pipeline
Idle ==
    [pc |-> "idle",
     call |-> [method |-> <<>>, params |-> <<>>, headers |-> <<>>,
               unique_cache_attribute |-> PyNone, use_cache |-> FALSE,
               override |-> FALSE],
     started |-> 0, session_at_call |-> "", endpoint |-> <<>>, sent |-> <<>>,
     response |-> NoResponse, cache_key |-> PyNone,
     steps |-> <<>>, warnings |-> 0, outcome |-> "", result |-> NonePayload, error |-> NoError]

\* no get has been issued on the cache since the latest set
NoOp == [op |-> "", kind |-> "", key |-> <<>>, ret |-> NonePayload, at |-> 0]

\* no session has been created in either mode
NoObjects == [sync |-> <<>>, async |-> <<>>]

\* the client is not used in a with statement
NoScope ==
    [pc |-> "out", m |-> "", entered |-> 0, at_entry |-> "", request |-> "",
     request_session |-> "", exc |-> "", propagated |-> ""]

\* no lifecycle call has been made
NoLastop ==
    [kind |-> [sync |-> "none", async |-> "none"],
     close |-> [m |-> "", again |-> FALSE, unchanged |-> FALSE, raised |-> FALSE]]

\* the tasks that use the cache at the same time
Tasks == 1..NumTasks

\* a task that has not used the cache: pc is the statement it is at, op, key,
\* value and ttl the call it is in, entry and expires its local variables, ret
\* what the call returned; path, seen and checked_at record the return
\* statement a get took, the map when it looked and the time it compared with
IdleTask ==
    [pc |-> "idle", op |-> "", key |-> <<>>, value |-> NonePayload, ttl |-> PyNone,
     entry |-> Entry(NonePayload, PyNone), expires |-> PyNone, ret |-> NonePayload,
     path |-> "", seen |-> NoData, checked_at |-> 0]

\* a freshly constructed client, the process-wide configuration, a cache whose
\* lock is free, and tasks that have not started
FreshClient ==
    /\ objects = NoObjects
    /\ scope = NoScope
    /\ lastop = NoLastop
    /\ session = "none"
    /\ async_session = "none"
    /\ unsafe_cache = FALSE
    /\ clock = 0
    /\ inv = Idle
    /\ ncalls = 0
    /\ lastSet = NoData
    /\ cres = NoOp
    /\ lock = 0
    /\ running = 0
    /\ tasks = [t \in Tasks |-> IdleTask]

\* a freshly constructed client and an empty cache
Fresh ==
    /\ FreshClient
    /\ data = NoData
    /\ written = {}

(***************************************************************************)
(* SpecKey: BingXHttpClient._generate_cache_key as a pure function, applied*)
(* to two parameter mappings.                                              *)
(***************************************************************************)
s_a == <<"a">>
s_b == <<"b">>
ParamNames == {s_a, s_b, s_timestamp, s_signature}

ParamValues(k) ==
    CASE k = s_a -> {PyInt(1), PyInt(2)}
      [] k = s_b -> {PyInt(1)}
      [] k = s_timestamp -> {PyInt(1000), PyInt(2000)}
      [] k = s_signature -> {PyStr(<<"x">>)}

Items == UNION {{<<k, v>> : v \in ParamValues(k)} : k \in ParamNames}

\* the dicts of at most n items over ParamNames, in every insertion order
Dicts(n) ==
    UNION {{d \in [1..m -> Items] : \A i, j \in 1..m : i # j => d[i][1] # d[j][1]}
           : m \in 0..n}

GET == <<"G", "E", "T">>
POST == <<"P", "O", "S", "T">>
s_path == <<"/", "x">>
Discriminators == {PyNone, PyStr(<<"d">>)}

InitKey ==
    /\ Fresh
    /\ cache = "sync"
    /\ mode = "sync"
    /\ arg \in [method : {GET}, endpoint : {s_path}, p1 : Dicts(MaxParams),
                p2 : Dicts(MaxParams), unique_cache_attribute : Discriminators]
    /\ ret = [done |-> FALSE, k1 |-> <<>>, k2 |-> <<>>]

GenerateKeys ==
    /\ ~ret.done
    /\ ret' = [done |-> TRUE,
               k1 |-> BingX_generate_cache_key(arg.method, arg.endpoint, arg.p1,
                                               arg.unique_cache_attribute),
               k2 |-> BingX_generate_cache_key(arg.method, arg.endpoint, arg.p2,
                                               arg.unique_cache_attribute)]
    /\ UNCHANGED <<lifevars, lockvars, session, async_session, unsafe_cache, cache, mode, data, clock,
                   inv, ncalls, lastSet, cres, arg>>

NextKey == GenerateKeys

SpecKey == InitKey /\ [][NextKey]_vars

\* the items of a dict other than timestamp and signature, as a set
LogicalItems(d) == {d[i] : i \in {j \in 1..Len(d) : d[j][1] \notin {s_timestamp, s_signature}}}

\* C3: _generate_cache_key returns the same key for any two parameter mappings
\* that agree on every entry other than 'timestamp' and 'signature', whatever
\* the values of those two entries and whatever the insertion order.
C3_KeyIgnoresTimestampAndSignature ==
    (ret.done /\ LogicalItems(arg.p1) = LogicalItems(arg.p2)) => ret.k1 = ret.k2

(***************************************************************************)
(* SpecErr: BingXHttpClient._check_errors as a pure function of a payload. *)
(***************************************************************************)
Codes == {e[1] : e \in error_mapping} \cup {0, 1, 999999}

Payloads ==
    {Payload(ks, IF "code" \in ks THEN c ELSE 0,
             IF "msg" \in ks THEN "bad key" ELSE "",
             IF "timestamp" \in ks THEN 1700000000 ELSE 0, "") :
        ks \in SUBSET {"code", "msg", "timestamp"}, c \in Codes}

InitErr ==
    /\ Fresh
    /\ cache = "sync"
    /\ mode = "sync"
    /\ arg \in Payloads
    /\ ret = [done |-> FALSE, err |-> NoError]

CheckErrors ==
    /\ ~ret.done
    /\ ret' = [done |-> TRUE, err |-> BingX_check_errors(arg)]
    /\ UNCHANGED <<lifevars, lockvars, session, async_session, unsafe_cache, cache, mode, data, clock,
                   inv, ncalls, lastSet, cres, arg>>

NextErr == CheckErrors

SpecErr == InitErr /\ [][NextErr]_vars

\* C6: _check_errors returns normally iff the payload has no 'code' or its
\* 'code' is 0; for any other code c it raises the error type the table
\* assigns to c (100413 gives IncorrectAPIKeyError), or the generic APIError
\* when c is not in the table (999999); the raised error's code is c, its
\* message is the payload's 'msg' (a fixed default when the payload has none)
\* and its timestamp is the payload's 'timestamp' (none when it has none).
C6_CheckErrorsClassifies ==
    ret.done =>
      LET e == ret.err
      IN  /\ ~e.raised <=> ("code" \notin arg.keys \/ arg.code = 0)
          /\ e.raised =>
               /\ \A m \in error_mapping : m[1] = arg.code => e.cls = m[2]
               /\ (\A m \in error_mapping : m[1] # arg.code) => e.cls = "APIError"
               /\ arg.code = 100413 => e.cls = "IncorrectAPIKeyError"
               /\ arg.code = 999999 => e.cls = "APIError"
               /\ e.code = arg.code
               /\ e.message = (IF "msg" \in arg.keys THEN arg.msg
                               ELSE "No error message provided")
               /\ e.has_timestamp = ("timestamp" \in arg.keys)
               /\ e.has_timestamp => e.timestamp = arg.timestamp

\* reached: the payload {"code": 100413, "msg": "bad key"} was classified
C6_Witness ==
    /\ ret.done
    /\ arg.keys = {"code", "msg"}
    /\ arg.code = 100413
    /\ ret.err.raised
    /\ ret.err.cls = "IncorrectAPIKeyError"
    /\ ret.err.code = 100413


(***************************************************************************)
(* SpecCache: the in-process caches used directly through get / set (aget /*)
(* aset), with the clock advancing between the operations.                 *)
(***************************************************************************)
CacheKeys == {<<"k", "1">>, <<"k", "2">>}
ValueA == Payload({"data"}, 0, "", 0, "A")
ValueB == Payload({"data"}, 0, "", 0, "B")
CacheValues == {ValueA, ValueB}
Ttls == {PyNone} \cup {PyInt(n) : n \in 0..MaxTtl}

\* what the entry under key is at time now: "absent", "live", "expired" or "eternal"
EntryState(d, key, now) ==
    IF key \notin DOMAIN d THEN "absent"
    ELSE IF d[key].expires.t = "none" THEN "eternal"
    ELSE IF d[key].expires.n < now THEN "expired"
    ELSE "live"

InitCache ==
    /\ Fresh
    /\ cache \in {"sync", "async"}
    /\ mode = cache
    /\ arg = 0
    /\ ret = 0

\* cache.set(key, value, ttl) / await cache.aset(key, value, ttl)
CacheSet(key, value, ttl) ==
    /\ data' = IF cache = "sync"
                 THEN SyncMemoryCache_set(data, key, value, ttl, clock)
                 ELSE AsyncMemoryCache_aset(data, key, value, ttl, clock)
    /\ lastSet' = DictPut(lastSet, key,
                          [value |-> value, ttl |-> ttl, at |-> clock,
                           over_expired |-> EntryState(data, key, clock) = "expired"])
    /\ cres' = NoOp
    /\ UNCHANGED <<lifevars, lockvars, session, async_session, unsafe_cache, cache, mode, clock, inv,
                   ncalls, arg, ret>>

\* cache.get(key) / await cache.aget(key)
CacheGet(key) ==
    LET r == IF cache = "sync" THEN SyncMemoryCache_get(data, key, clock)
             ELSE AsyncMemoryCache_aget(data, key, clock)
    IN  /\ data' = r.data
        /\ cres' = [op |-> "get", kind |-> cache, key |-> key, ret |-> r.ret,
                    at |-> clock]
        /\ UNCHANGED <<lifevars, lockvars, session, async_session, unsafe_cache, cache, mode, clock, inv,
                       ncalls, lastSet, arg, ret>>

\* time passes
CacheTick ==
    /\ clock < CacheMaxClock
    /\ clock' = clock + 1
    /\ UNCHANGED <<lifevars, lockvars, session, async_session, unsafe_cache, cache, mode, data, inv,
                   ncalls, lastSet, cres, arg, ret>>

NextCache ==
    \/ \E key \in CacheKeys, value \in CacheValues, ttl \in Ttls : CacheSet(key, value, ttl)
    \/ \E key \in CacheKeys : CacheGet(key)
    \/ CacheTick

SpecCache == InitCache /\ [][NextCache]_vars

\* the latest operation was a get of key k, issued after a set of k
GotAfterSet(k) == cres.op = "get" /\ cres.key = k /\ k \in DOMAIN lastSet

\* C7: after set(k, v, ttl) with ttl > 0, a get(k) issued once the clock has
\* passed the entry's expiry time returns absent and leaves no entry for k in
\* the map; this holds for every such get until the next set(k), and a key
\* never set is absent.
C7_ExpiredGetIsNonePayloadAndEvicts ==
    /\ (cres.op = "get" /\ cres.key \notin DOMAIN lastSet) => cres.ret = NonePayload
    /\ \A k \in DOMAIN lastSet :
         (GotAfterSet(k) /\ Truthy(lastSet[k].ttl)
            /\ lastSet[k].ttl.n > 0 /\ lastSet[k].at + lastSet[k].ttl.n < cres.at)
         => (cres.ret = NonePayload /\ k \notin DOMAIN data)

\* reached: a second get of an entry that expired returned absent again
C7_Witness ==
    \E k \in DOMAIN lastSet :
        /\ GotAfterSet(k)
        /\ lastSet[k].ttl = PyInt(1)
        /\ lastSet[k].at + 1 < cres.at - 1
        /\ cres.ret = NonePayload
        /\ k \notin DOMAIN data

\* C8: an entry written by set(k, v) with ttl omitted or null never expires:
\* at every later clock value get(k) returns v, until k is set again.
C8_NoTtlNeverExpires ==
    \A k \in DOMAIN lastSet :
        (GotAfterSet(k) /\ lastSet[k].ttl = PyNone)
        => (cres.ret = lastSet[k].value /\ k \in DOMAIN data)

\* reached: an entry set without ttl at time 0 was returned at the last clock value
C8_Witness ==
    \E k \in DOMAIN lastSet :
        /\ GotAfterSet(k)
        /\ lastSet[k].ttl = PyNone
        /\ lastSet[k].at = 0
        /\ cres.at = CacheMaxClock
        /\ cres.ret = lastSet[k].value

\* C9: set(k, v2, ttl2) replaces the value and the expiry of any entry for k:
\* a get(k) that follows returns v2 unless v2 has expired under ttl2, whatever
\* the entry it replaced (live, expired, or without expiry) was.
C9_SetOverwritesValueAndExpiry ==
    \A k \in DOMAIN lastSet :
        (GotAfterSet(k)
           /\ (Truthy(lastSet[k].ttl) => cres.at <= lastSet[k].at + lastSet[k].ttl.n))
        => (cres.ret = lastSet[k].value
            /\ k \in DOMAIN data
            /\ data[k].value = lastSet[k].value
            /\ data[k].expires = (IF Truthy(lastSet[k].ttl)
                                    THEN PyInt(lastSet[k].at + lastSet[k].ttl.n)
                                    ELSE PyNone))

\* reached: an entry that had expired was replaced by one without ttl, which a
\* later get returned
C9_Witness ==
    \E k \in DOMAIN lastSet :
        /\ GotAfterSet(k)
        /\ lastSet[k].over_expired
        /\ lastSet[k].ttl = PyNone
        /\ cres.at > lastSet[k].at
        /\ cres.ret = lastSet[k].value


(***************************************************************************)
(* The request pipeline.  An invocation runs in two parts: up to the       *)
(* moment the request is handed to the session (send), and from the        *)
(* arrival of the response (receive).  Each part is given as a record: the *)
(* outcome ("" while the request is in flight, "returned", or the name of  *)
(* the exception raised), the steps taken in order, the warnings logged,   *)
(* the local cache_key, the value returned and the cache's map.            *)
(***************************************************************************)
Effect(outcome, steps, warnings, cache_key, result, error, d) ==
    [outcome |-> outcome, steps |-> steps, warnings |-> warnings,
     cache_key |-> cache_key, result |-> result, error |-> error, data |-> d]

\* a gate that tests the verb the wrong way round
caching_misuse_of_get(use_cache, method, unsafe) ==
    use_cache /\ method = GET /\ ~unsafe

\* a gate that never consults the unsafe-cache flag
caching_misuse_ignores_flag(use_cache, method, unsafe) ==
    use_cache /\ method # GET

\* the gate of _request / _async_request:
\* use_cache and method != "GET" and not cache_config.is_unsafe_cache_enabled()
caching_misuse(use_cache, method, unsafe) ==
    use_cache /\ method # GET /\ ~unsafe

\* self._generate_cache_key(method, endpoint, params, unique_cache_attribute) as
\* called by HttpClient on a BingXHttpClient: params is None, and endpoint is
\* the one BingXHttpClient passed down
derived_cache_key(method, endpoint, unique_cache_attribute) ==
    BingX_generate_cache_key(method, endpoint, <<>>, unique_cache_attribute)

\* a _request that calls get on whatever cache the client holds
HttpClient_request_send_any_cache(method, endpoint, use_cache, unique_cache_attribute, sess, unsafe, kind, d, now) ==
    IF sess = "none"
      THEN Effect("RuntimeError", <<>>, 0, PyNone, NonePayload, NoError, d)
    ELSE IF caching_misuse(use_cache, method, unsafe)
      THEN Effect("ValueError", <<>>, 0, PyNone, NonePayload, NoError, d)
    ELSE IF use_cache /\ kind # "none"
      THEN LET key == derived_cache_key(method, endpoint, unique_cache_attribute)
               r == SyncMemoryCache_get(d, key, now)
           IN  IF r.ret # NonePayload
                 THEN Effect("returned", <<"cache_get">>, 0, PyStr(key), r.ret,
                             NoError, r.data)
                 ELSE Effect("", <<"cache_get", "transport">>, 0, PyStr(key),
                             NonePayload, NoError, r.data)
    ELSE IF use_cache
      THEN Effect("", <<"transport">>, 1, PyNone, NonePayload, NoError, d)
    ELSE Effect("", <<"transport">>, 0, PyNone, NonePayload, NoError, d)

\* HttpClient._request from its first line to self._session.request(...).
\* A requests.Session that was closed sends the request all the same.
HttpClient_request_send(method, endpoint, use_cache, unique_cache_attribute, sess, unsafe, kind, d, now) ==
    IF sess = "none"
      THEN Effect("RuntimeError", <<>>, 0, PyNone, NonePayload, NoError, d)
    ELSE IF caching_misuse(use_cache, method, unsafe)
      THEN Effect("ValueError", <<>>, 0, PyNone, NonePayload, NoError, d)
    ELSE IF use_cache /\ kind = "sync"
      THEN LET key == derived_cache_key(method, endpoint, unique_cache_attribute)
               r == SyncMemoryCache_get(d, key, now)
           IN  IF r.ret # NonePayload
                 THEN Effect("returned", <<"cache_get">>, 0, PyStr(key), r.ret,
                             NoError, r.data)
                 ELSE Effect("", <<"cache_get", "transport">>, 0, PyStr(key),
                             NonePayload, NoError, r.data)
    ELSE IF use_cache
      THEN Effect("", <<"transport">>, 1, PyNone, NonePayload, NoError, d)
    ELSE Effect("", <<"transport">>, 0, PyNone, NonePayload, NoError, d)

\* an _async_request that, like _request, uses a cache of its own mode only
HttpClient_async_request_send_own_mode_only(method, endpoint, use_cache, unique_cache_attribute, sess, unsafe, kind, d, now) ==
    IF sess = "none"
      THEN Effect("RuntimeError", <<>>, 0, PyNone, NonePayload, NoError, d)
    ELSE IF caching_misuse(use_cache, method, unsafe)
      THEN Effect("ValueError", <<>>, 0, PyNone, NonePayload, NoError, d)
    ELSE LET cached == use_cache /\ kind = "async"
             key == derived_cache_key(method, endpoint, unique_cache_attribute)
             cache_key == IF cached THEN PyStr(key) ELSE PyNone
             r == IF cached THEN AsyncMemoryCache_aget(d, key, now)
                  ELSE [ret |-> NonePayload, data |-> d]
             warnings == IF use_cache /\ kind # "async" THEN 1 ELSE 0
             read == IF cached THEN <<"cache_get">> ELSE <<>>
         IN  IF r.ret # NonePayload
               THEN Effect("returned", read, warnings, cache_key, r.ret, NoError, r.data)
             ELSE IF sess = "closed"
               THEN Effect("RuntimeError", read, warnings, cache_key, NonePayload,
                           NoError, r.data)
             ELSE Effect("", read \o <<"transport">>, warnings, cache_key,
                         NonePayload, NoError, r.data)

\* HttpClient._async_request from its first line to
\* self._async_session.request(...).  An aiohttp.ClientSession that was closed
\* raises RuntimeError("Session is closed") before any I/O.
HttpClient_async_request_send(method, endpoint, use_cache, unique_cache_attribute, sess, unsafe, kind, d, now) ==
    IF sess = "none"
      THEN Effect("RuntimeError", <<>>, 0, PyNone, NonePayload, NoError, d)
    ELSE IF caching_misuse(use_cache, method, unsafe)
      THEN Effect("ValueError", <<>>, 0, PyNone, NonePayload, NoError, d)
    ELSE LET cached == use_cache /\ kind # "none"
             key == derived_cache_key(method, endpoint, unique_cache_attribute)
             cache_key == IF cached THEN PyStr(key) ELSE PyNone
             r == IF ~cached THEN [ret |-> NonePayload, data |-> d]
                  ELSE IF kind = "async" THEN AsyncMemoryCache_aget(d, key, now)
                  ELSE SyncMemoryCache_get(d, key, now)
             warnings == IF use_cache /\ kind # "async" THEN 1 ELSE 0
             read == IF cached THEN <<"cache_get">> ELSE <<>>
         IN  IF r.ret # NonePayload
               THEN Effect("returned", read, warnings, cache_key, r.ret, NoError, r.data)
             ELSE IF sess = "closed"
               THEN Effect("RuntimeError", read, warnings, cache_key, NonePayload,
                           NoError, r.data)
             ELSE Effect("", read \o <<"transport">>, warnings, cache_key,
                         NonePayload, NoError, r.data)

\* a receive that classifies the body before it looks at the status
HttpClient_request_receive_classifies_first(use_cache, cache_key, response, kind, d, now, ttl) ==
    LET dat == IF response.body = "json" THEN response.payload ELSE EmptyDict
        err == BingX_check_errors(dat)
    IN  IF err.raised
          THEN Effect("APIError", <<"classify">>, 0, cache_key, NonePayload, err, d)
        ELSE IF ~response.status_ok
          THEN Effect("HTTPError", <<"classify">>, 0, cache_key, NonePayload, NoError, d)
        ELSE IF use_cache /\ kind = "sync" /\ Truthy(cache_key)
          THEN Effect("returned", <<"classify", "cache_set">>, 0, cache_key, dat,
                      NoError, SyncMemoryCache_set(d, cache_key.s, dat, PyInt(ttl), now))
        ELSE Effect("returned", <<"classify">>, 0, cache_key, dat, NoError, d)

\* a blocking receive that writes the cache before it classifies the payload
HttpClient_request_receive_saves_first(use_cache, cache_key, response, kind, d, now, ttl) ==
    IF ~response.status_ok
      THEN Effect("HTTPError", <<>>, 0, cache_key, NonePayload, NoError, d)
    ELSE LET dat == IF response.body = "json" THEN response.payload ELSE EmptyDict
             err == BingX_check_errors(dat)
             saved == IF use_cache /\ kind = "sync" /\ Truthy(cache_key)
                        THEN SyncMemoryCache_set(d, cache_key.s, dat, PyInt(ttl), now)
                        ELSE d
             steps == IF saved # d THEN <<"cache_set", "classify">> ELSE <<"classify">>
         IN  IF err.raised
               THEN Effect("APIError", steps, 0, cache_key, NonePayload, err, saved)
             ELSE Effect("returned", steps, 0, cache_key, dat, NoError, saved)

\* HttpClient._request from response.raise_for_status() to its return
HttpClient_request_receive(use_cache, cache_key, response, kind, d, now, ttl) ==
    IF ~response.status_ok
      THEN Effect("HTTPError", <<>>, 0, cache_key, NonePayload, NoError, d)
    ELSE LET dat == IF response.body = "json" THEN response.payload ELSE EmptyDict
             err == BingX_check_errors(dat)
         IN  IF err.raised
               THEN Effect("APIError", <<"classify">>, 0, cache_key, NonePayload, err, d)
             ELSE IF use_cache /\ kind = "sync" /\ Truthy(cache_key)
               THEN Effect("returned", <<"classify", "cache_set">>, 0, cache_key, dat,
                           NoError,
                           SyncMemoryCache_set(d, cache_key.s, dat, PyInt(ttl), now))
             ELSE Effect("returned", <<"classify">>, 0, cache_key, dat, NoError, d)

\* a receive that saves the decoded payload before it is classified
HttpClient_async_request_receive_saves_first(use_cache, cache_key, response, kind, d, now, ttl) ==
    IF ~response.status_ok
      THEN Effect("HTTPError", <<>>, 0, cache_key, NonePayload, NoError, d)
    ELSE IF response.body = "garbage"
      THEN Effect("JSONDecodeError", <<>>, 0, cache_key, NonePayload, NoError, d)
    ELSE LET dat == IF response.body = "json" THEN response.payload ELSE NonePayload
             err == BingX_check_errors(IF dat = NonePayload \/ dat = EmptyDict
                                         THEN EmptyDict ELSE dat)
             saved == IF use_cache /\ kind # "none" /\ cache_key # PyNone
                        THEN AsyncMemoryCache_aset(d, cache_key.s, dat, PyInt(ttl), now)
                        ELSE d
         IN  IF err.raised
               THEN Effect("APIError", <<"cache_set", "classify">>, 0, cache_key,
                           NonePayload, err, saved)
             ELSE Effect("returned", <<"cache_set", "classify">>, 0, cache_key, dat,
                         NoError, saved)

\* a non-blocking receive that logs a classification failure and returns the
\* payload all the same
HttpClient_async_request_receive_swallows(use_cache, cache_key, response, kind, d, now, ttl) ==
    IF ~response.status_ok
      THEN Effect("HTTPError", <<>>, 0, cache_key, NonePayload, NoError, d)
    ELSE IF response.body = "garbage"
      THEN Effect("JSONDecodeError", <<>>, 0, cache_key, NonePayload, NoError, d)
    ELSE LET dat == IF response.body = "json" THEN response.payload ELSE NonePayload
             err == BingX_check_errors(IF dat = NonePayload \/ dat = EmptyDict
                                         THEN EmptyDict ELSE dat)
         IN  IF err.raised
               THEN Effect("returned", <<"classify">>, 1, cache_key, dat, NoError, d)
             ELSE IF use_cache /\ kind # "none" /\ cache_key # PyNone
               THEN IF kind = "async"
                      THEN Effect("returned", <<"classify", "cache_set">>, 0, cache_key,
                                  dat, NoError,
                                  AsyncMemoryCache_aset(d, cache_key.s, dat, PyInt(ttl), now))
                      ELSE Effect("returned", <<"classify", "cache_set">>, 1, cache_key,
                                  dat, NoError,
                                  SyncMemoryCache_set(d, cache_key.s, dat, PyInt(ttl), now))
             ELSE Effect("returned", <<"classify">>, 0, cache_key, dat, NoError, d)

\* HttpClient._async_request from response.raise_for_status() to its return.
\* response.json(content_type=None) is None for an empty body and raises
\* json.JSONDecodeError for a body that is not JSON.
HttpClient_async_request_receive(use_cache, cache_key, response, kind, d, now, ttl) ==
    IF ~response.status_ok
      THEN Effect("HTTPError", <<>>, 0, cache_key, NonePayload, NoError, d)
    ELSE IF response.body = "garbage"
      THEN Effect("JSONDecodeError", <<>>, 0, cache_key, NonePayload, NoError, d)
    ELSE LET dat == IF response.body = "json" THEN response.payload ELSE NonePayload
             err == BingX_check_errors(IF dat = NonePayload \/ dat = EmptyDict
                                         THEN EmptyDict ELSE dat)
         IN  IF err.raised
               THEN Effect("APIError", <<"classify">>, 0, cache_key, NonePayload, err, d)
             ELSE IF use_cache /\ kind # "none" /\ cache_key # PyNone
               THEN IF kind = "async"
                      THEN Effect("returned", <<"classify", "cache_set">>, 0, cache_key,
                                  dat, NoError,
                                  AsyncMemoryCache_aset(d, cache_key.s, dat, PyInt(ttl), now))
                      ELSE Effect("returned", <<"classify", "cache_set">>, 1, cache_key,
                                  dat, NoError,
                                  SyncMemoryCache_set(d, cache_key.s, dat, PyInt(ttl), now))
             ELSE Effect("returned", <<"classify">>, 0, cache_key, dat, NoError, d)

\* the signature a caller-supplied override_signature returns
override_signature(params_str) == <<"e", "x", "t", "(">> \o params_str \o <<")">>

api_key == "key"

\* headers[name] = value on a dict of headers (a function from names to values)
SetHeader(headers, name, value) ==
    [n \in DOMAIN headers \cup {name} |-> IF n = name THEN value ELSE headers[n]]

\* a _request that signs with the built-in signer whatever the caller supplied
BingX_request_prepare_hmac_only(endpoint, params, headers, override, now) ==
    LET params_str == BingX_parse_params(params, now)
        signature == BingX_sign_request(params_str)
    IN  [headers |-> SetHeader(headers, "X-BX-APIKEY", api_key),
         params_str |-> params_str,
         signature |-> signature,
         signers |-> <<[signer |-> "_sign_request", arg |-> params_str]>>,
         endpoint |-> endpoint \o <<"?">> \o params_str \o <<"&">> \o s_signature
                      \o <<"=">> \o signature]

\* a _request that keeps the X-BX-APIKEY header the caller passed
BingX_request_prepare_keeps_header(endpoint, params, headers, override, now) ==
    LET params_str == BingX_parse_params(params, now)
        signature == IF override THEN override_signature(params_str)
                     ELSE BingX_sign_request(params_str)
    IN  [headers |-> IF "X-BX-APIKEY" \in DOMAIN headers THEN headers
                     ELSE SetHeader(headers, "X-BX-APIKEY", api_key),
         params_str |-> params_str,
         signature |-> signature,
         signers |-> IF override THEN <<[signer |-> "override_signature",
                                         arg |-> params_str]>>
                     ELSE <<[signer |-> "_sign_request", arg |-> params_str]>>,
         endpoint |-> endpoint \o <<"?">> \o params_str \o <<"&">> \o s_signature
                      \o <<"=">> \o signature]

\* BingXHttpClient._request from its first line to the call of
\* super()._request: the headers and the endpoint it passes on, the canonical
\* string, the signature, and the signers it called with their argument.
\* headers = << >> stands for None and for {}.
BingX_request_prepare(endpoint, params, headers, override, now) ==
    LET hs == SetHeader(headers, "X-BX-APIKEY", api_key)
        params_str == BingX_parse_params(params, now)
        signature == IF override THEN override_signature(params_str)
                     ELSE BingX_sign_request(params_str)
    IN  [headers |-> hs,
         params_str |-> params_str,
         signature |-> signature,
         signers |-> IF override THEN <<[signer |-> "override_signature",
                                         arg |-> params_str]>>
                     ELSE <<[signer |-> "_sign_request", arg |-> params_str]>>,
         endpoint |-> endpoint \o <<"?">> \o params_str \o <<"&">> \o s_signature
                      \o <<"=">> \o signature]

\* BingXHttpClient._async_request from its first line to the call of
\* super()._async_request
BingX_async_request_prepare(endpoint, params, headers, override, now) ==
    LET hs == SetHeader(headers, "X-BX-APIKEY", api_key)
        params_str == BingX_parse_params(params, now)
        signature == IF override THEN override_signature(params_str)
                     ELSE BingX_sign_request(params_str)
    IN  [headers |-> hs,
         params_str |-> params_str,
         signature |-> signature,
         signers |-> IF override THEN <<[signer |-> "override_signature",
                                         arg |-> params_str]>>
                     ELSE <<[signer |-> "_sign_request", arg |-> params_str]>>,
         endpoint |-> endpoint \o <<"?">> \o params_str \o <<"&">> \o s_signature
                      \o <<"=">> \o signature]

\* BingXHttpClient._request / _async_request: the endpoint passed to HttpClient
BingX_signed_endpoint(endpoint, params, override, now) ==
    BingX_request_prepare(endpoint, params, <<>>, override, now).endpoint

(***************************************************************************)
(* Spec: one client, used in one mode (blocking or non-blocking), its      *)
(* session of that mode, the process-wide configuration, the cache it was  *)
(* constructed with, and a caller invoking the pipeline, one call at a     *)
(* time, while the session, the configuration and the clock change.        *)
(***************************************************************************)
Call(method, params, headers, unique_cache_attribute, use_cache, override) ==
    [method |-> method, params |-> params, headers |-> headers,
     unique_cache_attribute |-> unique_cache_attribute, use_cache |-> use_cache,
     override |-> override]

\* headers of a caller that passes its own X-BX-APIKEY
OwnKeyHeaders == [n \in {"X-BX-APIKEY"} |-> "other"]

ParamsA == <<<<s_a, PyInt(1)>>>>

\* the calls the caller makes
Calls ==
    {Call(GET, ParamsA, <<>>, PyNone, TRUE, FALSE),
     Call(GET, ParamsA, <<>>, PyStr(<<"d">>), TRUE, FALSE),
     Call(GET, ParamsA, OwnKeyHeaders, PyNone, FALSE, FALSE),
     Call(POST, ParamsA, <<>>, PyNone, TRUE, FALSE),
     Call(POST, ParamsA, OwnKeyHeaders, PyNone, FALSE, TRUE)}

PayloadA == Payload({"code", "data"}, 0, "", 0, "A")
PayloadErr == Payload({"code", "msg"}, 100413, "bad key", 0, "")

\* what the server may answer
Responses ==
    {[status_ok |-> TRUE, body |-> "json", payload |-> PayloadA],
     [status_ok |-> TRUE, body |-> "json", payload |-> PayloadErr],
     [status_ok |-> FALSE, body |-> "json", payload |-> PayloadErr],
     [status_ok |-> TRUE, body |-> "empty", payload |-> EmptyDict],
     [status_ok |-> TRUE, body |-> "garbage", payload |-> EmptyDict]}

Init ==
    /\ Fresh
    /\ mode \in {"sync", "async"}
    /\ cache \in {"sync", "async", "none"}
    /\ arg = 0
    /\ ret = 0

\* HttpClient.connect
Connect ==
    /\ mode = "sync"
    /\ session' = "open"
    /\ UNCHANGED <<lifevars, lockvars, async_session, unsafe_cache, cache, mode, data, clock, inv, ncalls,
                   lastSet, cres, arg, ret>>

\* HttpClient.close
Close ==
    /\ mode = "sync"
    /\ session' = IF session # "none" THEN "closed" ELSE session
    /\ UNCHANGED <<lifevars, lockvars, async_session, unsafe_cache, cache, mode, data, clock, inv, ncalls,
                   lastSet, cres, arg, ret>>

\* HttpClient.connect_async
ConnectAsync ==
    /\ mode = "async"
    /\ async_session' = "open"
    /\ UNCHANGED <<lifevars, lockvars, session, unsafe_cache, cache, mode, data, clock, inv, ncalls,
                   lastSet, cres, arg, ret>>

\* HttpClient.close_async
CloseAsync ==
    /\ mode = "async"
    /\ async_session' = IF async_session # "none" THEN "closed" ELSE async_session
    /\ UNCHANGED <<lifevars, lockvars, session, unsafe_cache, cache, mode, data, clock, inv, ncalls,
                   lastSet, cres, arg, ret>>

\* CacheConfig.enable_unsafe_cache
EnableUnsafeCache ==
    /\ unsafe_cache' = TRUE
    /\ UNCHANGED <<lifevars, lockvars, session, async_session, cache, mode, data, clock, inv, ncalls,
                   lastSet, cres, arg, ret>>

\* CacheConfig.disable_unsafe_cache
DisableUnsafeCache ==
    /\ unsafe_cache' = FALSE
    /\ UNCHANGED <<lifevars, lockvars, session, async_session, cache, mode, data, clock, inv, ncalls,
                   lastSet, cres, arg, ret>>

\* time passes
Tick ==
    /\ clock < MaxClock
    /\ clock' = clock + 1
    /\ UNCHANGED <<lifevars, lockvars, session, async_session, unsafe_cache, cache, mode, data, inv,
                   ncalls, lastSet, cres, arg, ret>>

\* the caller invokes BingXHttpClient._request (mode "sync") or _async_request
\* (mode "async"); the step ends when the call has returned or raised, or when
\* the request is in flight.  session_at_call records the state the session of
\* the client's mode was in when the call was made; sent is empty, or holds the
\* one request handed to the session, with the endpoint and the headers
\* HttpClient received (url = base_url + endpoint, headers = headers).
Request(call) ==
    /\ ncalls < MaxCalls
    /\ inv.pc # "wait"
    /\ \E prepared \in {IF mode = "sync"
                           THEN BingX_request_prepare(s_path, call.params, call.headers,
                                                      call.override, clock)
                           ELSE BingX_async_request_prepare(s_path, call.params,
                                    call.headers, call.override, clock)} :
       \E eff \in {IF mode = "sync"
                      THEN HttpClient_request_send(call.method, prepared.endpoint,
                               call.use_cache, call.unique_cache_attribute, session,
                               unsafe_cache, cache, data, clock)
                      ELSE HttpClient_async_request_send(call.method, prepared.endpoint,
                               call.use_cache, call.unique_cache_attribute,
                               async_session, unsafe_cache, cache, data, clock)} :
           /\ inv' = [pc |-> IF eff.outcome = "" THEN "wait" ELSE "done",
                      call |-> call, started |-> clock,
                      session_at_call |-> (IF mode = "sync" THEN session
                                           ELSE async_session),
                      endpoint |-> prepared.endpoint,
                      sent |-> IF \E i \in 1..Len(eff.steps) : eff.steps[i] = "transport"
                                 THEN <<[method |-> call.method,
                                         endpoint |-> prepared.endpoint,
                                         headers |-> prepared.headers]>>
                                 ELSE <<>>,
                      response |-> NoResponse,
                      cache_key |-> eff.cache_key, steps |-> <<"sign">> \o eff.steps,
                      warnings |-> eff.warnings, outcome |-> eff.outcome,
                      result |-> eff.result, error |-> eff.error]
           /\ data' = eff.data
    /\ ncalls' = ncalls + 1
    /\ UNCHANGED <<lifevars, lockvars, session, async_session, unsafe_cache, cache, mode, clock, lastSet,
                   cres, arg, ret>>

\* the response to the request in flight arrives and the invocation runs to its end
Response(response) ==
    /\ inv.pc = "wait"
    /\ \E eff \in {IF mode = "sync"
                    THEN HttpClient_request_receive(inv.call.use_cache, inv.cache_key,
                             response, cache, data, clock, CacheTtl)
                    ELSE HttpClient_async_request_receive(inv.call.use_cache,
                             inv.cache_key, response, cache, data, clock, CacheTtl)} :
           /\ inv' = [inv EXCEPT !.pc = "done",
                                 !.response = response,
                                 !.steps = @ \o eff.steps,
                                 !.warnings = @ + eff.warnings,
                                 !.outcome = eff.outcome, !.result = eff.result,
                                 !.error = eff.error]
           /\ data' = eff.data
    /\ UNCHANGED <<lifevars, lockvars, session, async_session, unsafe_cache, cache, mode, clock, ncalls,
                   lastSet, cres, arg, ret>>

Next ==
    \/ Connect
    \/ Close
    \/ ConnectAsync
    \/ CloseAsync
    \/ EnableUnsafeCache
    \/ DisableUnsafeCache
    \/ Tick
    \/ \E call \in Calls : Request(call)
    \/ \E response \in Responses : Response(response)

Spec == Init /\ [][Next]_vars

\* the steps an invocation has taken
StepsOf(r) == {r.steps[i] : i \in 1..Len(r.steps)}

\* the session of the mode the client is used in
ModeSession == IF mode = "sync" THEN session ELSE async_session

\* C1: on an open session with a cache of the client's mode, when a GET call
\* with use_cache has fetched and returned a payload, the same call made again
\* at another timestamp within the cache TTL makes no transport call and
\* returns the payload the first call returned.
C1_SecondGetServedFromCache ==
    [][(/\ ncalls' = ncalls + 1
        /\ cache = mode
        /\ inv.pc = "done" /\ inv.outcome = "returned"
        /\ inv.session_at_call = "open"
        /\ "transport" \in StepsOf(inv)
        /\ inv.call.method = GET /\ inv.call.use_cache
        /\ inv'.call = inv.call
        /\ inv'.session_at_call = "open"
        /\ inv'.started # inv.started
        /\ inv'.started <= inv.started + CacheTtl)
       => (/\ inv'.pc = "done"
           /\ inv'.outcome = "returned"
           /\ inv'.result = inv.result
           /\ "transport" \notin StepsOf(inv'))]_vars

\* C2: the cache key of a signed call with use_cache depends on the verb, the
\* path, the logical parameters and the discriminator only: when the same call
\* is made again, at whatever timestamp, the key handed to the cache is the
\* key of the call before.
C2_CacheKeyIgnoresSigningTime ==
    [][(/\ ncalls' = ncalls + 1
        /\ inv'.call = inv.call
        /\ inv.call.use_cache
        /\ inv.cache_key # PyNone
        /\ inv'.cache_key # PyNone)
       => inv'.cache_key = inv.cache_key]_vars

\* C4: on an open session, a call with use_cache and a verb other than GET,
\* made while the unsafe-cache flag is off, ends with ValueError, in either
\* mode, having taken no step after the signing (no cache get, no transport
\* call, no cache set), and leaves the cache's map and the sessions as they
\* were.
C4_CachingMisuseRejected ==
    [][(/\ ncalls' = ncalls + 1
        /\ ModeSession = "open"
        /\ inv'.call.use_cache
        /\ inv'.call.method # GET
        /\ ~unsafe_cache)
       => (/\ inv'.pc = "done"
           /\ inv'.outcome = "ValueError"
           /\ inv'.steps = <<"sign">>
           /\ inv'.result = NonePayload
           /\ data' = data
           /\ session' = session
           /\ async_session' = async_session)]_vars

\* reached: a POST with use_cache was rejected on an open session while the
\* cache held an entry
C4_Witness ==
    /\ inv.pc = "done"
    /\ inv.outcome = "ValueError"
    /\ inv.call.method = POST
    /\ inv.call.use_cache
    /\ inv.session_at_call = "open"
    /\ ~unsafe_cache
    /\ data # NoData

\* the payload passes the classification: it has no code, or the code 0
Passes(payload) == "code" \notin payload.keys \/ payload.code = 0

C10_RequestWithoutOpenSessionFails ==
    (inv.pc # "idle" /\ inv.session_at_call # "open")
    => (/\ inv.pc = "done"
        /\ inv.outcome = "RuntimeError"
        /\ "transport" \notin StepsOf(inv))

(***************************************************************************)
(* SpecLife: the lifecycle of the sessions of one client.  objects[m] lists *)
(* the sessions created in mode m; self._session (self._async_session) is  *)
(* the last one, or None when none was created.  A with statement calls    *)
(* __enter__, runs its body, calls __exit__ with the exception the body    *)
(* raised if any, and re-raises that exception when __exit__ returned a    *)
(* false value.                                                            *)
(***************************************************************************)
\* a client creates at most MaxSessions sessions per mode in a behaviour
MaxSessions == 2

Modes == {"sync", "async"}

\* self._session = requests.Session() / self._async_session = aiohttp.ClientSession()
new_session(ss) == Append(ss, "open")

\* a close that calls self._session.close() without testing self._session
close_session_unguarded(ss) ==
    IF ss = <<>> THEN [ss |-> ss, raised |-> TRUE]
    ELSE [ss |-> [ss EXCEPT ![Len(ss)] = "closed"], raised |-> FALSE]

\* a close that leaves the session open
close_session_skipped(ss) == [ss |-> ss, raised |-> FALSE]

\* if self._session: self._session.close()
\* Session.close() and ClientSession.close() on a closed session do nothing.
close_session(ss) ==
    [ss |-> IF ss = <<>> THEN ss ELSE [ss EXCEPT ![Len(ss)] = "closed"],
     raised |-> FALSE]

\* the state of the session the client holds
held_session(ss) == IF ss = <<>> THEN "none" ELSE ss[Len(ss)]

InitLife ==
    /\ Fresh
    /\ cache = "none"
    /\ mode = "sync"
    /\ arg = 0
    /\ ret = 0

OtherVars ==
    <<session, async_session, unsafe_cache, cache, mode, data, clock, inv, ncalls,
      lastSet, cres, arg, ret, lockvars>>

\* connect / connect_async / __enter__ / __aenter__ in mode m
Open(m) ==
    /\ Len(objects[m]) < MaxSessions
    /\ objects' = [objects EXCEPT ![m] = new_session(@)]
    /\ lastop' = [lastop EXCEPT !.kind[m] = "open"]

\* close / close_async in mode m
CloseCall(m) ==
    LET r == close_session(objects[m])
    IN  /\ objects' = [objects EXCEPT ![m] = r.ss]
        /\ lastop' = [kind |-> [lastop.kind EXCEPT ![m] = "close"],
                      close |-> [m |-> m,
                                 again |-> lastop.kind[m] \in {"none", "close"},
                                 unchanged |-> r.ss = objects[m],
                                 raised |-> r.raised]]

\* HttpClient.connect
connect ==
    /\ Open("sync")
    /\ UNCHANGED <<OtherVars, scope>>

\* HttpClient.close
close ==
    /\ CloseCall("sync")
    /\ UNCHANGED <<OtherVars, scope>>

\* HttpClient.connect_async
connect_async ==
    /\ Open("async")
    /\ UNCHANGED <<OtherVars, scope>>

\* HttpClient.close_async
close_async ==
    /\ CloseCall("async")
    /\ UNCHANGED <<OtherVars, scope>>

\* entering a with statement in mode m: __enter__ / __aenter__
Enter(m) ==
    /\ scope.pc \in {"out", "after"}
    /\ Open(m)
    /\ scope' = [pc |-> "body", m |-> m, entered |-> Len(objects[m]) + 1,
                 at_entry |-> held_session(objects'[m]), request |-> "",
                 request_session |-> "", exc |-> "", propagated |-> ""]

\* HttpClient.__enter__
enter ==
    /\ Enter("sync")
    /\ UNCHANGED OtherVars

\* HttpClient.__aenter__
aenter ==
    /\ Enter("async")
    /\ UNCHANGED OtherVars

\* the body makes a request: it fails with RuntimeError if the session is not
\* initialized, or is handed to the session.  request_session records the
\* state the held session was in.
BodyRequest ==
    /\ scope.pc = "body"
    /\ scope.request = ""
    /\ LET sess == held_session(objects[scope.m])
           eff == IF scope.m = "sync"
                    THEN HttpClient_request_send(GET, s_path, FALSE, PyNone, sess,
                                                 FALSE, "none", NoData, 0)
                    ELSE HttpClient_async_request_send(GET, s_path, FALSE, PyNone, sess,
                                                       FALSE, "none", NoData, 0)
       IN  scope' = [scope EXCEPT !.request = IF eff.outcome = "" THEN "sent"
                                              ELSE eff.outcome,
                                  !.request_session = sess]
    /\ UNCHANGED <<OtherVars, objects, lastop>>

\* the body ends: it completes, or raises exc
BodyEnds(exc) ==
    /\ scope.pc = "body"
    /\ scope' = [scope EXCEPT !.pc = "leaving", !.exc = exc]
    /\ UNCHANGED <<OtherVars, objects, lastop>>

\* leaving the with statement in mode m: __exit__ / __aexit__ closes the session
\* the client holds and returns None, so the body's exception is re-raised
Exit(m) ==
    /\ scope.pc = "leaving"
    /\ scope.m = m
    /\ objects' = [objects EXCEPT ![m] = close_session(@).ss]
    /\ lastop' = [lastop EXCEPT !.kind[m] = "exit"]
    /\ scope' = [scope EXCEPT !.pc = "after", !.propagated = scope.exc]

\* HttpClient.__exit__
exit ==
    /\ Exit("sync")
    /\ UNCHANGED OtherVars

\* HttpClient.__aexit__
aexit ==
    /\ Exit("async")
    /\ UNCHANGED OtherVars

NextLife ==
    \/ connect
    \/ close
    \/ connect_async
    \/ close_async
    \/ enter
    \/ aenter
    \/ BodyRequest
    \/ \E exc \in {"", "KeyError"} : BodyEnds(exc)
    \/ exit
    \/ aexit

SpecLife == InitLife /\ [][NextLife]_vars

\* C11: close() and close_async() never raise, and a close called on a client
\* of which no session was opened in that mode, or called right after another
\* close of that mode, leaves the sessions of the client as they were.
C11_CloseIsIdempotent ==
    lastop.close.m # ""
    => (/\ ~lastop.close.raised
        /\ lastop.close.again => lastop.close.unchanged)

\* reached: a close called right after the close that closed an open session
C11_Witness ==
    /\ lastop.close.m = "sync"
    /\ lastop.close.again
    /\ lastop.close.unchanged
    /\ objects["sync"] = <<"closed">>

C13_AtMostOneOpenSession ==
    \A m \in Modes :
        Cardinality({i \in 1..Len(objects[m]) : objects[m][i] = "open"}) <= 1

(***************************************************************************)
(* SpecSign: the canonicalization and the signing of a request, applied to *)
(* one parameter mapping at two instants, to its reorderings, and to the   *)
(* mappings that differ from it in the value of one parameter.             *)
(***************************************************************************)
\* a parameter mapping given to the signer has at most MaxItems entries
MaxItems == 2

s_c == <<"c">>
SignNames == {s_a, s_b, s_c}
SignValues == {PyInt(0), PyInt(1), PyStr(<<"1">>), PyList(<<1, 2>>)}
SignItems == {<<k, v>> : k \in SignNames, v \in SignValues}

\* the dicts of at most n entries over SignNames, in every insertion order
SignDicts(n) ==
    UNION {{d \in [1..m -> SignItems] : \A i, j \in 1..m : i # j => d[i][1] # d[j][1]}
           : m \in 0..n}

\* the instants a request is signed at, in seconds
Instants == {0, 1}

\* the headers a caller passes
CallerHeaders == {<<>>, [n \in {"X-BX-APIKEY"} |-> "other"]}

\* the same entries in every insertion order
Reorderings(d) ==
    {q \in [1..Len(d) -> {d[i] : i \in 1..Len(d)}] :
        \A i, j \in 1..Len(d) : i # j => q[i] # q[j]}

\* the mappings that differ from d in the value of exactly one parameter
Variants(d) ==
    {[d EXCEPT ![i] = <<d[i][1], v>>] : i \in 1..Len(d), v \in SignValues} \ {d}

InitSign ==
    /\ Fresh
    /\ cache = "none"
    /\ mode \in Modes
    /\ arg \in [params : SignDicts(MaxItems), now1 : Instants, now2 : Instants,
                headers : CallerHeaders, override : BOOLEAN]
    /\ ret = [done |-> FALSE]

\* the client canonicalizes and signs arg.params
Sign ==
    /\ ~ret.done
    /\ ret' = [done |-> TRUE,
               s1 |-> BingX_parse_params(arg.params, arg.now1),
               s2 |-> BingX_parse_params(arg.params, arg.now2),
               reordered |-> {BingX_parse_params(q, arg.now1)
                                : q \in Reorderings(arg.params)},
               variants |-> {[params |-> q,
                              s |-> BingX_parse_params(q, arg.now1),
                              signature |-> BingX_sign_request(
                                                BingX_parse_params(q, arg.now1))]
                               : q \in Variants(arg.params)},
               signature1 |-> BingX_sign_request(BingX_parse_params(arg.params, arg.now1)),
               again |-> BingX_sign_request(BingX_parse_params(arg.params, arg.now1)),
               prepared |-> IF mode = "sync"
                              THEN BingX_request_prepare(s_path, arg.params, arg.headers,
                                                         arg.override, arg.now1)
                              ELSE BingX_async_request_prepare(s_path, arg.params,
                                       arg.headers, arg.override, arg.now1)]
    /\ UNCHANGED <<lifevars, lockvars, session, async_session, unsafe_cache, cache, mode, data,
                   clock, inv, ncalls, lastSet, cres, arg>>

NextSign == Sign

SpecSign == InitSign /\ [][NextSign]_vars

\* the entries of d whose value is truthy, in increasing order of their names
KeptSorted(d) ==
    LET kept == {d[i] : i \in {j \in 1..Len(d) : Truthy(d[j][2])}}
    IN  CHOOSE q \in [1..Cardinality(kept) -> kept] :
            \A i, j \in 1..Cardinality(kept) : i < j => StrLess(q[i][1], q[j][1])

\* name=value, a list value without its spaces
NameValue(item) ==
    item[1] \o <<"=">> \o
    (IF item[2].t = "list" THEN StripSpaces(ToStr(item[2])) ELSE ToStr(item[2]))

\* timestamp=<ms> for the instant now
TimestampSuffix(now) == s_timestamp \o <<"=">> \o IntToStr(now * 1000)

\* s without its last n characters
DropLast(s, n) == SubSeq(s, 1, Len(s) - n)

\* C14: _parse_params returns the truthy entries, sorted by name, rendered
\* name=value and joined by '&', followed by '&timestamp=t', or by
\* 'timestamp=t' alone when no entry is left; the result is the same for every
\* insertion order, and the results at two instants are the same up to the
\* timestamp suffix.
C14_ParseParamsCanonical ==
    ret.done =>
      LET q == KeptSorted(arg.params)
          body == Join(<<"&">>, [i \in 1..Len(q) |-> NameValue(q[i])])
      IN  /\ ret.s1 = (IF q = <<>> THEN TimestampSuffix(arg.now1)
                       ELSE body \o <<"&">> \o TimestampSuffix(arg.now1))
          /\ ret.reordered = {ret.s1}
          /\ DropLast(ret.s1, Len(TimestampSuffix(arg.now1)))
             = DropLast(ret.s2, Len(TimestampSuffix(arg.now2)))

\* reached: a mapping of two entries given in decreasing order of the names,
\* one of them a list and none falsy, canonicalized at two different instants
C14_Witness ==
    /\ ret.done
    /\ Len(arg.params) = 2
    /\ StrLess(arg.params[2][1], arg.params[1][1])
    /\ arg.params[1][2] = PyList(<<1, 2>>)
    /\ Truthy(arg.params[2][2])
    /\ arg.now1 # arg.now2
    /\ ret.s1 # ret.s2

\* C15: for a fixed secret and a fixed timestamp, signing the same mapping
\* twice gives the same signature, and every mapping that differs from it in
\* the value of one parameter has another canonical string and another
\* signature.
C15_SignatureTellsValuesApart ==
    ret.done =>
      /\ ret.again = ret.signature1
      /\ \A v \in ret.variants : v.s # ret.s1 /\ v.signature # ret.signature1

\* the query string a request carries: canonical string, '&signature=', signature
SignedQuery(canonical, signature) ==
    s_path \o <<"?">> \o canonical \o <<"&">> \o s_signature \o <<"=">> \o signature

C17_TransportCallsAreSigned ==
    LET canonical == BingX_parse_params(inv.call.params, inv.started)
        suffix == TimestampSuffix(inv.started)
    IN  /\ ("transport" \in StepsOf(inv)) <=> (Len(inv.sent) = 1)
        /\ \A i \in 1..Len(inv.sent) :
             /\ inv.sent[i].headers["X-BX-APIKEY"] = api_key
             /\ SubSeq(canonical, Len(canonical) - Len(suffix) + 1, Len(canonical))
                = suffix
             /\ inv.sent[i].endpoint
                = SignedQuery(canonical,
                      IF inv.call.override THEN override_signature(canonical)
                      ELSE HmacSha256Hex(api_secret, canonical))

\* reached: a non-blocking POST of a caller that passed its own X-BX-APIKEY
\* was handed to the session
C17_Witness ==
    /\ mode = "async"
    /\ inv.call.method = POST
    /\ inv.call.headers = OwnKeyHeaders
    /\ Len(inv.sent) = 1
    /\ inv.sent[1].headers["X-BX-APIKEY"] = api_key

\* C18: in the blocking and in the non-blocking path, an invocation that
\* received a 2xx response with an empty body, or with a body that is not
\* JSON, does not fail: the payload is classified, the value returned is {},
\* and the value written to the cache, when one is written, is {}.
C18_EmptyOrUnparseableBodyIsEmptyDict ==
    (inv.pc = "done" /\ inv.response.status_ok
       /\ inv.response.body \in {"empty", "garbage"})
    => (/\ inv.outcome = "returned"
        /\ "classify" \in StepsOf(inv)
        /\ inv.result = EmptyDict
        /\ "cache_set" \in StepsOf(inv) => data[inv.cache_key.s].value = EmptyDict)

LiveEntry(k) ==
    /\ k \in DOMAIN data
    /\ data[k].value # NonePayload
    /\ ~(Truthy(data[k].expires) /\ data[k].expires.n < clock)

\* C20: on a client used in non-blocking mode with a blocking cache, a call
\* with use_cache that passes the session test and the gate reads the cache
\* with a key before any transport call and logs one warning; when the cache
\* holds a live entry under the key the call returns its value, with no
\* transport call and the map unchanged; otherwise, on an open session, the
\* request is handed to the session, and when its payload passes the
\* classification a second warning is logged, the payload is written under
\* the key with the TTL of the client, and it is returned.  No failure comes
\* from the mode of the cache.
C20_BlockingCacheServesNonBlockingCalls ==
    [][(mode = "async" /\ cache = "sync")
       => /\ (/\ ncalls' = ncalls + 1
              /\ inv'.call.use_cache
              /\ async_session # "none"
              /\ (inv'.call.method = GET \/ unsafe_cache))
             => (/\ inv'.cache_key # PyNone
                 /\ inv'.warnings = 1
                 /\ SubSeq(inv'.steps, 1, 2) = <<"sign", "cache_get">>
                 /\ IF LiveEntry(inv'.cache_key.s)
                      THEN /\ inv'.pc = "done"
                           /\ inv'.outcome = "returned"
                           /\ inv'.result = data[inv'.cache_key.s].value
                           /\ inv'.steps = <<"sign", "cache_get">>
                           /\ inv'.sent = <<>>
                           /\ data' = data
                      ELSE async_session = "open"
                           => (/\ inv'.pc = "wait"
                               /\ inv'.steps = <<"sign", "cache_get", "transport">>))
          /\ (inv.pc = "wait" /\ inv'.pc = "done" /\ inv.call.use_cache)
             => IF inv'.outcome = "returned"
                  THEN /\ inv'.steps = inv.steps \o <<"classify", "cache_set">>
                       /\ inv'.warnings = 2
                       /\ inv'.cache_key.s \in DOMAIN data'
                       /\ data'[inv'.cache_key.s]
                          = Entry(inv'.result, PyInt(clock + CacheTtl))
                  ELSE /\ inv'.outcome \in {"HTTPError", "APIError", "JSONDecodeError"}
                       /\ data' = data]_vars

\* reached: a non-blocking call was served from the blocking cache
C20_Witness ==
    /\ mode = "async"
    /\ cache = "sync"
    /\ inv.pc = "done"
    /\ inv.call.use_cache
    /\ inv.outcome = "returned"
    /\ inv.steps = <<"sign", "cache_get">>
    /\ inv.warnings = 1
    /\ inv.result = PayloadA

\* C21: with a cache of the client's mode, the pipeline of the client's mode
\* and the pipeline of the other mode, given the same call at the same time,
\* the same unsafe-cache flag, the same session state, the same map of the
\* cache and the same response, take the same steps in the same order and end
\* with the same outcome, the same returned payload and the same map.
C21_PipelinesStepForStepEquivalent ==
    [][(cache = mode)
       => /\ (ncalls' = ncalls + 1)
             => LET c == inv'.call
                    ep == IF mode = "sync"
                            THEN BingX_async_request_prepare(s_path, c.params, c.headers,
                                     c.override, clock).endpoint
                            ELSE BingX_request_prepare(s_path, c.params, c.headers,
                                     c.override, clock).endpoint
                    other == IF mode = "sync"
                               THEN HttpClient_async_request_send(c.method, ep,
                                        c.use_cache, c.unique_cache_attribute,
                                        ModeSession, unsafe_cache, "async", data, clock)
                               ELSE HttpClient_request_send(c.method, ep, c.use_cache,
                                        c.unique_cache_attribute, ModeSession,
                                        unsafe_cache, "sync", data, clock)
                IN  /\ inv'.steps = <<"sign">> \o other.steps
                    /\ inv'.outcome = other.outcome
                    /\ inv'.result = other.result
                    /\ data' = other.data
          /\ (inv.pc = "wait" /\ inv'.pc = "done")
             => LET other == IF mode = "sync"
                               THEN HttpClient_async_request_receive(inv.call.use_cache,
                                        inv.cache_key, inv'.response, "async", data,
                                        clock, CacheTtl)
                               ELSE HttpClient_request_receive(inv.call.use_cache,
                                        inv.cache_key, inv'.response, "sync", data,
                                        clock, CacheTtl)
                IN  /\ inv'.steps = inv.steps \o other.steps
                    /\ inv'.outcome = other.outcome
                    /\ inv'.result = other.result
                    /\ data' = other.data]_vars

\* the cache the client was constructed with can be used in the client's mode
CacheUsable == cache = "sync" \/ (cache = "async" /\ mode = "async")

\* C22: the unsafe-cache flag is off at the start and is read when a call is
\* made: a call with use_cache and a verb other than GET that passes the
\* session test is rejected with ValueError exactly when the flag is off at
\* that moment, so it is accepted after enable_unsafe_cache and rejected again
\* after disable_unsafe_cache; an accepted one reads the cache first when the
\* cache can be used in the client's mode, hands the request to an open
\* session on a miss, and when the payload passes the classification writes
\* it under its key.  A GET call with use_cache is never rejected by the gate.
C22_UnsafeCacheFlagReadAtCallTime ==
    /\ ~unsafe_cache
    /\ [][/\ (ncalls' = ncalls + 1 /\ inv'.call.use_cache /\ ModeSession # "none")
             => /\ (inv'.call.method = GET) => inv'.outcome # "ValueError"
                /\ (inv'.call.method # GET)
                   => ((inv'.outcome = "ValueError") <=> ~unsafe_cache)
                /\ (inv'.call.method # GET /\ unsafe_cache /\ CacheUsable)
                   => /\ SubSeq(inv'.steps, 1, 2) = <<"sign", "cache_get">>
                      /\ inv'.cache_key # PyNone
                      /\ (~LiveEntry(inv'.cache_key.s) /\ ModeSession = "open")
                         => (/\ inv'.pc = "wait"
                             /\ inv'.steps = <<"sign", "cache_get", "transport">>)
          /\ (inv.pc = "wait" /\ inv'.pc = "done" /\ inv.call.use_cache
                /\ inv.call.method # GET /\ CacheUsable
                /\ inv'.outcome = "returned")
             => (/\ inv'.steps = inv.steps \o <<"classify", "cache_set">>
                 /\ inv'.cache_key.s \in DOMAIN data'
                 /\ data'[inv'.cache_key.s].value = inv'.result)
          /\ EnableUnsafeCache => unsafe_cache'
          /\ DisableUnsafeCache => ~unsafe_cache']_vars

\* reached: a POST with use_cache is rejected on an open session with the flag
\* off, while the cache holds the entry that a POST wrote when the flag was on
C22_Witness ==
    /\ inv.pc = "done"
    /\ inv.outcome = "ValueError"
    /\ inv.call.method = POST
    /\ inv.call.use_cache
    /\ inv.session_at_call = "open"
    /\ ~unsafe_cache
    /\ \E k \in DOMAIN data : SubSeq(k, 1, Len(POST)) = POST

\* the key under which a call made now reads the cache
KeyOfCall(c) ==
    derived_cache_key(c.method,
        BingX_request_prepare(s_path, c.params, c.headers, c.override, clock).endpoint,
        c.unique_cache_attribute)

\* the cache holds under key k an entry that has not expired
UnexpiredEntry(k) ==
    /\ k \in DOMAIN data
    /\ ~(Truthy(data[k].expires) /\ data[k].expires.n < clock)

\* C23: with a cache of the client's mode, a call with use_cache that passes
\* the session test and the gate while the cache holds an unexpired entry
\* under the call's key returns the value of that entry at once: it makes no
\* transport call, runs no classification, writes nothing, and leaves the map
\* (the entry's value and expiry included) as it was.
C23_HitReturnsEntryAndLeavesCache ==
    [][(/\ ncalls' = ncalls + 1
        /\ cache = mode
        /\ inv'.call.use_cache
        /\ ModeSession # "none"
        /\ (inv'.call.method = GET \/ unsafe_cache)
        /\ UnexpiredEntry(KeyOfCall(inv'.call)))
       => (/\ inv'.pc = "done"
           /\ inv'.outcome = "returned"
           /\ inv'.result = data[KeyOfCall(inv'.call)].value
           /\ inv'.steps = <<"sign", "cache_get">>
           /\ inv'.sent = <<>>
           /\ data' = data)]_vars

\* the place of a step in the order of the pipeline
StepRank(step) ==
    CASE step = "sign" -> 1
      [] step = "cache_get" -> 2
      [] step = "transport" -> 3
      [] step = "classify" -> 4
      [] step = "cache_set" -> 5

\* C24: the steps of an invocation are taken in the order signing, cache read,
\* transport call, classification, cache write, each at most once and the
\* signing first; a classification follows a transport call of the same
\* invocation, and a cache write follows a transport call and a classification
\* of the same invocation that raised nothing, the invocation returning the
\* payload it wrote.
C24_StepsInFixedOrder ==
    (inv.pc # "idle")
    => /\ inv.steps[1] = "sign"
       /\ \A i, j \in 1..Len(inv.steps) :
            i < j => StepRank(inv.steps[i]) < StepRank(inv.steps[j])
       /\ ("classify" \in StepsOf(inv)) => ("transport" \in StepsOf(inv))
       /\ ("cache_set" \in StepsOf(inv))
          => /\ "transport" \in StepsOf(inv)
             /\ "classify" \in StepsOf(inv)
             /\ inv.pc = "done"
             /\ inv.outcome = "returned"
             /\ ~inv.error.raised
             /\ data[inv.cache_key.s].value = inv.result

\* reached: an invocation in blocking mode took all five steps
C24_Witness ==
    /\ mode = "sync"
    /\ inv.pc = "done"
    /\ inv.steps = <<"sign", "cache_get", "transport", "classify", "cache_set">>
    /\ inv.result = PayloadA

\* how many times an invocation took the step
Count(r, step) == Cardinality({i \in 1..Len(r.steps) : r.steps[i] = step})

\* C25: an invocation hands at most one request to the session; the step that
\* receives the response ends the invocation and hands no further request;
\* when the response has a status that is not 2xx the invocation ends with
\* the transport's failure, and when its payload carries a code other than 0
\* it ends with the classifier's exception for that code; in both cases
\* nothing is returned.
C25_NoRetryNoSwallow ==
    [][/\ Count(inv', "transport") <= 1
       /\ Len(inv'.sent) <= 1
       /\ (inv.pc = "wait")
          => (inv' = inv \/ (inv'.pc = "done" /\ inv'.sent = inv.sent
                             /\ Count(inv', "transport") = 1 /\ ncalls' = ncalls))
       /\ (inv.pc = "wait" /\ inv'.pc = "done" /\ ~inv'.response.status_ok)
          => (/\ inv'.outcome = "HTTPError"
              /\ inv'.result = NonePayload)
       /\ (inv.pc = "wait" /\ inv'.pc = "done" /\ inv'.response.status_ok
             /\ inv'.response.body = "json" /\ ~Passes(inv'.response.payload))
          => (/\ inv'.outcome = "APIError"
              /\ inv'.error.raised
              /\ inv'.error.code = inv'.response.payload.code
              /\ inv'.result = NonePayload)]_vars

\* reached: a non-blocking invocation ended with the classifier's exception
\* after one transport call
C25_Witness ==
    /\ mode = "async"
    /\ inv.pc = "done"
    /\ inv.outcome = "APIError"
    /\ inv.response.status_ok
    /\ inv.response.payload = PayloadErr
    /\ inv.error.code = 100413
    /\ Count(inv, "transport") = 1
    /\ inv.result = NonePayload

(***************************************************************************)
(* SpecLock: tasks using one in-process cache at the same time.  With mode *)
(* "sync" the tasks are threads, which the interpreter may switch between  *)
(* any two statements, and the cache is a SyncMemoryCache.  With mode      *)
(* "async" they are coroutines of one event loop, which runs one coroutine *)
(* until it returns or awaits something that is not ready; the cache is an *)
(* AsyncMemoryCache, or the SyncMemoryCache that a non-blocking client     *)
(* calls without awaiting.  get / aget and set / aset are taken statement  *)
(* by statement, and the clock may advance between any two of them.        *)
(***************************************************************************)
LockKey == <<"k", "1">>
LockTtls == {PyNone, PyInt(1)}

\* a lock that lets every task in
lock_acquire_no_exclusion(lk, t) == [ok |-> TRUE, lock |-> t]

\* entering `with self._lock:` / `async with self._lock:`: the task goes on
\* only when the lock is free
lock_acquire(lk, t) == IF lk = 0 THEN [ok |-> TRUE, lock |-> t] ELSE [ok |-> FALSE, lock |-> lk]

\* a get written with acquire() and release() that returns from the
\* missing-entry path without the release
lock_release_not_on_missing(lk, t, path) == IF path = "missing" THEN lk ELSE 0

\* leaving the with block, by whichever return statement
lock_release(lk, t, path) == 0

\* the scheduler lets task t take a step
Runnable(t) == mode = "sync" \/ running \in {0, t}

\* the coroutine the event loop runs after a step of t that leads to pc
Scheduled(t, pc) == IF mode = "async" /\ pc # "idle" THEN t ELSE 0

LockOther == <<session, async_session, unsafe_cache, cache, mode, inv, lastSet, cres, arg, ret, lifevars>>

\* the entry a set(LockKey, ValueA, ttl=1) made at time 0 stored
StoredEntry == Entry(ValueA, PyInt(1))

\* the cache is empty, or holds the entry stored by a set that has returned
InitLock ==
    /\ FreshClient
    /\ written \in {{}, {StoredEntry}}
    /\ data = IF written = {} THEN NoData ELSE [k \in {LockKey} |-> StoredEntry]
    /\ mode \in Modes
    /\ cache \in IF mode = "sync" THEN {"sync"} ELSE {"async", "sync"}
    /\ arg = 0
    /\ ret = 0

\* task t calls cache.get(key) / await cache.aget(key)
GetStart(t, key) ==
    /\ Runnable(t)
    /\ tasks[t].pc = "idle"
    /\ ncalls < MaxOps
    /\ ncalls' = ncalls + 1
    /\ tasks' = [tasks EXCEPT ![t] = [IdleTask EXCEPT !.pc = "acquire", !.op = "get",
                                         !.key = key]]
    /\ running' = Scheduled(t, "acquire")
    /\ UNCHANGED <<LockOther, data, clock, lock, written>>

\* task t calls cache.set(key, value, ttl) / await cache.aset(key, value, ttl)
SetStart(t, key, value, ttl) ==
    /\ Runnable(t)
    /\ tasks[t].pc = "idle"
    /\ ncalls < MaxOps
    /\ ncalls' = ncalls + 1
    /\ tasks' = [tasks EXCEPT ![t] = [IdleTask EXCEPT !.pc = "acquire", !.op = "set",
                                         !.key = key, !.value = value, !.ttl = ttl]]
    /\ running' = Scheduled(t, "acquire")
    /\ UNCHANGED <<LockOther, data, clock, lock, written>>

\* with self._lock: / async with self._lock:
Acquire(t) ==
    /\ Runnable(t)
    /\ tasks[t].pc = "acquire"
    /\ lock_acquire(lock, t).ok
    /\ lock' = lock_acquire(lock, t).lock
    /\ tasks' = [tasks EXCEPT ![t].pc = IF tasks[t].op = "get" THEN "read" ELSE "stamp"]
    /\ running' = Scheduled(t, "read")
    /\ UNCHANGED <<LockOther, ncalls, data, clock, written>>

\* entry = self._data.get(key); if entry is None: return None
GetRead(t) ==
    /\ Runnable(t)
    /\ tasks[t].pc = "read"
    /\ tasks' = [tasks EXCEPT ![t] =
                   IF tasks[t].key \in DOMAIN data
                     THEN [@ EXCEPT !.pc = "check", !.entry = data[tasks[t].key]]
                     ELSE [@ EXCEPT !.pc = "release", !.ret = NonePayload,
                                    !.path = "missing", !.seen = data,
                                    !.checked_at = clock]]
    /\ running' = Scheduled(t, "check")
    /\ UNCHANGED <<LockOther, ncalls, data, clock, lock, written>>

\* value, expires = entry; if expires and expires < time.time(): ... return value
GetCheck(t) ==
    /\ Runnable(t)
    /\ tasks[t].pc = "check"
    /\ tasks' = [tasks EXCEPT ![t] =
                   IF Truthy(tasks[t].entry.expires) /\ tasks[t].entry.expires.n < clock
                     THEN [@ EXCEPT !.pc = "pop", !.path = "expired", !.seen = data,
                                    !.checked_at = clock]
                     ELSE [@ EXCEPT !.pc = "release", !.ret = tasks[t].entry.value,
                                    !.path = "value", !.seen = data,
                                    !.checked_at = clock]]
    /\ running' = Scheduled(t, "pop")
    /\ UNCHANGED <<LockOther, ncalls, data, clock, lock, written>>

\* self._data.pop(key) / del self._data[key]; return None
GetPop(t) ==
    /\ Runnable(t)
    /\ tasks[t].pc = "pop"
    /\ data' = DictPop(data, tasks[t].key)
    /\ tasks' = [tasks EXCEPT ![t].pc = "release", ![t].ret = NonePayload]
    /\ running' = Scheduled(t, "release")
    /\ UNCHANGED <<LockOther, ncalls, clock, lock, written>>

\* expires = time.time() + ttl if ttl else None
SetStamp(t) ==
    /\ Runnable(t)
    /\ tasks[t].pc = "stamp"
    /\ tasks' = [tasks EXCEPT ![t].pc = "store",
                              ![t].expires = IF Truthy(tasks[t].ttl)
                                               THEN PyInt(clock + tasks[t].ttl.n)
                                               ELSE PyNone]
    /\ running' = Scheduled(t, "store")
    /\ UNCHANGED <<LockOther, ncalls, data, clock, lock, written>>

\* self._data[key] = (value, expires)
SetStore(t) ==
    /\ Runnable(t)
    /\ tasks[t].pc = "store"
    /\ data' = DictPut(data, tasks[t].key, Entry(tasks[t].value, tasks[t].expires))
    /\ written' = written \cup {Entry(tasks[t].value, tasks[t].expires)}
    /\ tasks' = [tasks EXCEPT ![t].pc = "release", ![t].path = "stored"]
    /\ running' = Scheduled(t, "release")
    /\ UNCHANGED <<LockOther, ncalls, clock, lock>>

\* the with block is left and the call returns
Release(t) ==
    /\ Runnable(t)
    /\ tasks[t].pc = "release"
    /\ lock' = lock_release(lock, t, tasks[t].path)
    /\ tasks' = [tasks EXCEPT ![t] = IdleTask]
    /\ running' = Scheduled(t, "idle")
    /\ UNCHANGED <<LockOther, ncalls, data, clock, written>>

\* time passes
LockTick ==
    /\ clock < LockMaxClock
    /\ clock' = clock + 1
    /\ UNCHANGED <<LockOther, ncalls, data, lock, running, tasks, written>>

\* a step of an operation that task t has started
Continue(t) ==
    \/ Acquire(t)
    \/ GetRead(t)
    \/ GetCheck(t)
    \/ GetPop(t)
    \/ SetStamp(t)
    \/ SetStore(t)
    \/ Release(t)

NextLock ==
    \/ \E t \in Tasks : GetStart(t, LockKey)
    \/ \E t \in Tasks, value \in CacheValues, ttl \in LockTtls : SetStart(t, LockKey, value, ttl)
    \/ \E t \in Tasks : Acquire(t)
    \/ \E t \in Tasks : GetRead(t)
    \/ \E t \in Tasks : GetCheck(t)
    \/ \E t \in Tasks : GetPop(t)
    \/ \E t \in Tasks : SetStamp(t)
    \/ \E t \in Tasks : SetStore(t)
    \/ \E t \in Tasks : Release(t)
    \/ LockTick

SpecLock == InitLock /\ [][NextLock]_vars

\* a thread that can take a step is switched to in the end, and the event loop
\* keeps running the coroutine it runs
SpecLockFair == SpecLock /\ \A t \in Tasks : WF_vars(Continue(t))

\* what get / aget returns and leaves when it runs alone on the map d at time now
AtomicGet(d, key, now) ==
    IF cache = "sync" THEN SyncMemoryCache_get(d, key, now)
    ELSE AsyncMemoryCache_aget(d, key, now)

\* the entry has expired at time now
Expired(e, now) == Truthy(e.expires) /\ e.expires.n < now

\* C26: whatever the tasks do at the same time, a get that is about to return
\* returns what a get running alone on the map as it was when the get looked
\* at the time returns, and leaves the map that get leaves: a value it returns
\* is the value of the entry the map held under the key at that time, which
\* had not expired then and was stored with that expiry by one set; and an
\* entry leaves the map only when it has expired.
C26_GetIsAtomic ==
    [][/\ \A t \in Tasks :
            (tasks'[t].op = "get" /\ tasks'[t].pc = "release")
            => LET r == tasks'[t]
                   a == AtomicGet(r.seen, r.key, r.checked_at)
               IN  /\ r.ret = a.ret
                   /\ data' = a.data
                   /\ (r.ret # NonePayload)
                      => (/\ r.key \in DOMAIN r.seen
                          /\ r.seen[r.key] = r.entry
                          /\ r.entry.value = r.ret
                          /\ ~Expired(r.entry, r.checked_at)
                          /\ r.entry \in written')
       /\ \A k \in (DOMAIN data) \ (DOMAIN data') : Expired(data[k], clock)]_vars

\* reached: a thread's get has evicted an expired entry and is about to
\* return, while another thread waits for the lock to set the same key
C26_Witness ==
    \E t, u \in Tasks :
        /\ mode = "sync"
        /\ tasks[t].op = "get" /\ tasks[t].pc = "release" /\ tasks[t].path = "expired"
        /\ tasks[t].key \notin DOMAIN data
        /\ lock = t
        /\ tasks[u].op = "set" /\ tasks[u].pc = "acquire" /\ tasks[u].key = tasks[t].key

\* C27: with threads on a SyncMemoryCache, coroutines on an AsyncMemoryCache
\* and coroutines on a SyncMemoryCache alike, every get or set that a task has
\* started returns in the end, by whichever return statement, and the task
\* then does not hold the cache's lock.
C27_CacheUseNeverDeadlocks ==
    \A t \in Tasks : (tasks[t].pc # "idle") ~> (tasks[t].pc = "idle" /\ lock # t)

\* reached: a coroutine's get on a SyncMemoryCache found no entry and is about
\* to return holding the lock, while another coroutine has a call to make
C27_Witness ==
    \E t, u \in Tasks :
        /\ mode = "async" /\ cache = "sync"
        /\ tasks[t].op = "get" /\ tasks[t].pc = "release" /\ tasks[t].path = "missing"
        /\ lock = t
        /\ tasks[u].pc = "idle"
        /\ ncalls < MaxOps

\* C28: on a client used in blocking mode with a non-blocking cache, the
\* cache's map never changes; a call with use_cache that passes the session
\* test and the gate derives no key, logs one warning and hands the request
\* to the session without a cache read; and when the response arrives no
\* cache write is made and no further warning logged, the invocation ending
\* with the classified payload returned or with the failure of the transport
\* or of the classification.
C28_AsyncCacheUntouchedInBlockingMode ==
    [][(mode = "sync" /\ cache = "async")
       => /\ data' = data
          /\ data = NoData
          /\ (/\ ncalls' = ncalls + 1
              /\ inv'.call.use_cache
              /\ session # "none"
              /\ (inv'.call.method = GET \/ unsafe_cache))
             => (/\ inv'.pc = "wait"
                 /\ inv'.cache_key = PyNone
                 /\ inv'.warnings = 1
                 /\ inv'.steps = <<"sign", "transport">>
                 /\ Len(inv'.sent) = 1)
          /\ (inv.pc = "wait" /\ inv'.pc = "done" /\ inv.call.use_cache)
             => (/\ inv'.cache_key = PyNone
                 /\ inv'.warnings = 1
                 /\ IF inv'.response.status_ok
                         /\ (inv'.response.body = "json" => Passes(inv'.response.payload))
                      THEN /\ inv'.outcome = "returned"
                           /\ inv'.steps = <<"sign", "transport", "classify">>
                           /\ inv'.result = (IF inv'.response.body = "json"
                                               THEN inv'.response.payload ELSE EmptyDict)
                      ELSE /\ inv'.outcome \in {"HTTPError", "APIError"}
                           /\ "cache_set" \notin StepsOf(inv')
                           /\ inv'.result = NonePayload)]_vars

\* reached: a blocking call with use_cache on a client with a non-blocking
\* cache returned the payload of the response
C28_Witness ==
    /\ mode = "sync"
    /\ cache = "async"
    /\ inv.pc = "done"
    /\ inv.call.use_cache
    /\ inv.outcome = "returned"
    /\ inv.result = PayloadA
    /\ inv.warnings = 1
    /\ inv.steps = <<"sign", "transport", "classify">>
    /\ ncalls = MaxCalls

\* the entry the map d holds under k, as a set with at most one element
EntryOf(d, k) == IF k \in DOMAIN d THEN {d[k]} ELSE {}

\* C29: in the in-process caches, a get or a set of one key leaves the value
\* and the expiry of every other key as they were; a get that returns a value
\* leaves the whole map as it was; a set removes no entry; the passing of
\* time changes nothing in the map; and an entry leaves the map only in a get
\* of its own key, made when the entry has expired, that returns absent.
C29_OperationsTouchOwnKeyOnly ==
    [][/\ \A key \in CacheKeys :
            CacheGet(key)
            => /\ \A k \in CacheKeys \ {key} : EntryOf(data', k) = EntryOf(data, k)
               /\ (cres'.ret # NonePayload) => data' = data
               /\ EntryOf(data', key) \subseteq EntryOf(data, key)
               /\ (key \in DOMAIN data /\ key \notin DOMAIN data')
                  => (Expired(data[key], clock) /\ cres'.ret = NonePayload)
       /\ \A key \in CacheKeys, value \in CacheValues, ttl \in Ttls :
            CacheSet(key, value, ttl)
            => /\ \A k \in CacheKeys \ {key} : EntryOf(data', k) = EntryOf(data, k)
               /\ DOMAIN data' = DOMAIN data \cup {key}
       /\ CacheTick => data' = data
       /\ \A k \in (DOMAIN data) \ (DOMAIN data') :
            /\ Expired(data[k], clock)
            /\ cres'.op = "get" /\ cres'.key = k /\ cres'.at = clock]_vars

\* reached: a get evicted the expired entry of its key while the map held,
\* under the other key, an entry that has expired as well
C29_Witness ==
    \E k \in CacheKeys, other \in CacheKeys :
        /\ k # other
        /\ cres.op = "get" /\ cres.key = k /\ cres.ret = NonePayload
        /\ k \in DOMAIN lastSet
        /\ k \notin DOMAIN data
        /\ other \in DOMAIN data
        /\ Expired(data[other], clock)
        /\ cres.at = clock

(***************************************************************************)
(* SpecInj: BingXHttpClient._generate_cache_key applied to two logical     *)
(* requests, each a verb, a path, a parameter mapping and a discriminator. *)
(***************************************************************************)
s_y == <<"/", "y">>
InjItems ==
    {<<s_a, PyInt(1)>>, <<s_a, PyStr(<<"1">>)>>, <<s_b, PyInt(1)>>,
     <<s_timestamp, PyInt(1000)>>}

\* the dicts of at most n items of InjItems, in every insertion order
InjDicts(n) ==
    UNION {{d \in [1..m -> InjItems] : \A i, j \in 1..m : i # j => d[i][1] # d[j][1]}
           : m \in 0..n}

InjDiscriminators == {PyNone, PyStr(<<"d">>), PyStr(<<"a", "=", "1">>)}

InitInj ==
    /\ Fresh
    /\ cache = "sync"
    /\ mode = "sync"
    /\ arg \in [m1 : {GET, POST}, m2 : {GET}, e1 : {s_path, s_y}, e2 : {s_path},
                p1 : InjDicts(MaxParams), p2 : InjDicts(MaxParams),
                u1 : InjDiscriminators, u2 : InjDiscriminators]
    /\ ret = [done |-> FALSE, k1 |-> <<>>, k2 |-> <<>>]

\* the client derives the key of each of the two requests
GenerateKeyPair ==
    /\ ~ret.done
    /\ ret' = [done |-> TRUE,
               k1 |-> BingX_generate_cache_key(arg.m1, arg.e1, arg.p1, arg.u1),
               k2 |-> BingX_generate_cache_key(arg.m2, arg.e2, arg.p2, arg.u2)]
    /\ UNCHANGED <<lifevars, lockvars, session, async_session, unsafe_cache, cache, mode,
                   data, clock, inv, ncalls, lastSet, cres, arg>>

NextInj == GenerateKeyPair

SpecInj == InitInj /\ [][NextInj]_vars

\* C30: _generate_cache_key returns equal keys for two requests only if they
\* have the same verb, the same path, the same parameters other than
\* timestamp and signature, and the same discriminator (so never for a
\* request with a discriminator and one without, nor for a request with
\* parameters and one without).
C30_CacheKeysInjective ==
    (ret.done /\ ret.k1 = ret.k2)
    => (/\ arg.m1 = arg.m2
        /\ arg.e1 = arg.e2
        /\ LogicalItems(arg.p1) = LogicalItems(arg.p2)
        /\ arg.u1 = arg.u2)
====
